---------------------------- MODULE Spec2Model ----------------------------
(***************************************************************************)
(* Bulk provisioning of ZPA application segments from a CSV file, as done  *)
(* by the two scripts of the repository:                                   *)
(*                                                                         *)
(*   src/zpa/import_segments.py  ("import": name-keyed existence check,    *)
(*                                browser-access / PRA child applications) *)
(*   src/zpa/segment_maker.py    ("maker": attribute-keyed existence check)*)
(*                                                                         *)
(* A Python str is modelled as a sequence of one-character strings, so     *)
(* that strip(), split(","), lower() and f-string concatenation are        *)
(* computed character by character.  A Python dict is modelled as a        *)
(* sequence of [k, v] entries with unique keys, in insertion order.  A CSV *)
(* row (csv.DictReader) is a function from the column names present to     *)
(* their values.  The Zscaler SDK client is the environment: each of its   *)
(* calls returns either an error or a result.                              *)
(***************************************************************************)
EXTENDS Integers, Sequences, FiniteSets, TLC

(***************************************************************************)
(* Python values and str methods                                           *)
(***************************************************************************)

\* Python's None (what csv.DictReader stores for a cell a short line lacks):
\* a value no str equals, since every element of a str is one character.
NoneVal == <<"None">>

Whitespace == {" ", "\n"}

RECURSIVE lstrip(_)
lstrip(s) == IF s /= <<>> /\ Head(s) \in Whitespace THEN lstrip(Tail(s)) ELSE s

RECURSIVE rstrip(_)
rstrip(s) ==
    IF s /= <<>> /\ s[Len(s)] \in Whitespace
    THEN rstrip(SubSeq(s, 1, Len(s) - 1))
    ELSE s

\* str.strip()
strip(s) == rstrip(lstrip(s))

\* str.split(sep): always at least one piece; "" splits to [""]
RECURSIVE split(_, _)
split(s, sep) ==
    IF \E k \in 1..Len(s) : s[k] = sep
    THEN LET k == CHOOSE k \in 1..Len(s) :
                      s[k] = sep /\ \A j \in 1..(k - 1) : s[j] /= sep
         IN  <<SubSeq(s, 1, k - 1)>> \o split(SubSeq(s, k + 1, Len(s)), sep)
    ELSE <<s>>

Uppers == <<"A", "B", "C", "D", "E", "F", "G", "H", "I", "J", "K", "L", "M",
            "N", "O", "P", "Q", "R", "S", "T", "U", "V", "W", "X", "Y", "Z">>
Lowers == <<"a", "b", "c", "d", "e", "f", "g", "h", "i", "j", "k", "l", "m",
            "n", "o", "p", "q", "r", "s", "t", "u", "v", "w", "x", "y", "z">>

\* str.lower()
lower(s) ==
    [k \in 1..Len(s) |->
        IF \E u \in 1..Len(Uppers) : Uppers[u] = s[k]
        THEN Lowers[CHOOSE u \in 1..Len(Uppers) : Uppers[u] = s[k]]
        ELSE s[k]]

\* str(value): None prints as "None"
str(v) == IF v = NoneVal THEN <<"N", "o", "n", "e">> ELSE v

\* truth value of a str or None
Truthy(v) == v /= NoneVal /\ v /= <<>>

\* [f(x) for x in s]
RECURSIVE MapStrip(_)
MapStrip(s) == IF s = <<>> THEN <<>> ELSE <<strip(Head(s))>> \o MapStrip(Tail(s))

\* [x.strip() for x in s if x.strip()]
RECURSIVE MapStripNonEmpty(_)
MapStripNonEmpty(s) ==
    IF s = <<>> THEN <<>>
    ELSE (IF strip(Head(s)) /= <<>> THEN <<strip(Head(s))>> ELSE <<>>)
         \o MapStripNonEmpty(Tail(s))

\* the set of a sequence's elements
Range(s) == {s[k] : k \in DOMAIN s}

(***************************************************************************)
(* Python dict: entries [k, v] in insertion order, keys unique             *)
(***************************************************************************)
DictHas(d, key) == \E n \in DOMAIN d : d[n].k = key

DictGet(d, key) == d[CHOOSE n \in DOMAIN d : d[n].k = key].v

\* d[key] = val: an existing key keeps its place and takes the new value
DictSet(d, key, val) ==
    IF DictHas(d, key)
    THEN [n \in DOMAIN d |-> IF d[n].k = key THEN [k |-> key, v |-> val] ELSE d[n]]
    ELSE Append(d, [k |-> key, v |-> val])

\* {group.name: group.id for group in groups}
RECURSIVE DictOfGroups(_, _)
DictOfGroups(groups, acc) ==
    IF groups = <<>> THEN acc
    ELSE DictOfGroups(Tail(groups), DictSet(acc, Head(groups).name, Head(groups).id))

\* row.get(key) and row.get(key, default) on a csv.DictReader row
Get(row, key) == IF key \in DOMAIN row THEN row[key] ELSE NoneVal

GetD(row, key, default) == IF key \in DOMAIN row THEN row[key] ELSE default

(***************************************************************************)
(* Helper functions shared by the two scripts                              *)
(***************************************************************************)
TrueWords == {<<"1">>, <<"t", "r", "u", "e">>, <<"y", "e", "s">>, <<"y">>}

\* mutant: the comparison made without lower()
str2bool_CaseSensitive(value) == str(value) \in TrueWords

str2bool(value) == lower(str(value)) \in TrueWords

\* mutant: the tokens are neither trimmed nor filtered
parse_ports_Unstripped(port_string) ==
    split(strip(IF Truthy(port_string) THEN port_string ELSE <<>>), ",")

\* import_segments.parse_ports: the trimmed non-empty tokens
parse_ports(port_string) ==
    MapStripNonEmpty(split(strip(IF Truthy(port_string) THEN port_string ELSE <<>>), ","))

RECURSIVE PortRanges(_)
PortRanges(tokens) ==
    IF tokens = <<>> THEN <<>>
    ELSE <<[from |-> Head(tokens), to |-> Head(tokens)]>> \o PortRanges(Tail(tokens))

\* segment_maker.parse_ports: one {from, to} range per trimmed non-empty token
parse_port_ranges(port_string) == PortRanges(parse_ports(port_string))


(***************************************************************************)
(* Row parsing.  A parse result is [tag, val, errors]: tag "ok" with the   *)
(* parsed dict in val, tag "none" for a rejected row (the function returns *)
(* None) with the messages it printed in errors, tag "raise" when the      *)
(* function raises AttributeError (a method called on a None cell).        *)
(***************************************************************************)
Rejected(errors) == [tag |-> "none", val |-> <<>>, errors |-> errors]

Raised == [tag |-> "raise", val |-> <<>>, errors |-> <<>>]

Parsed(val) == [tag |-> "ok", val |-> val, errors |-> <<>>]

\* import_segments.parse_csv_row: only the truth value of the three
\* mandatory cells is tested; group names are validated later, in the loop
parse_csv_row_import(row) ==
    IF ~(/\ Truthy(Get(row, "NAME"))
         /\ Truthy(Get(row, "DOMAINS"))
         /\ Truthy(Get(row, "SERVER_GROUP_IDS")))
    THEN Rejected(<<[kind |-> "missing_required_fields"]>>)
    ELSE IF \/ GetD(row, "DESCRIPTION", <<>>) = NoneVal
            \/ GetD(row, "SEGMENT_GROUP_ID", <<>>) = NoneVal
    THEN Raised
    ELSE Parsed([name |-> strip(GetD(row, "NAME", <<>>)),
                 description |-> strip(GetD(row, "DESCRIPTION", <<>>)),
                 enabled |-> str2bool(GetD(row, "ENABLED", <<"t", "r", "u", "e">>)),
                 segment_group_name |-> strip(GetD(row, "SEGMENT_GROUP_ID", <<>>)),
                 server_group_names |->
                     MapStrip(split(GetD(row, "SERVER_GROUP_IDS", <<>>), ",")),
                 domain_names |-> MapStrip(split(GetD(row, "DOMAINS", <<>>), ",")),
                 tcp_ports |-> parse_ports(GetD(row, "TCP_PORTS", <<>>)),
                 udp_ports |-> parse_ports(GetD(row, "UDP_PORTS", <<>>)),
                 double_encrypt |->
                     str2bool(GetD(row, "DOUBLE_ENCRYPT", <<"f", "a", "l", "s", "e">>)),
                 is_browser_access |->
                     str2bool(GetD(row, "IS_BROWSER_ACCESS", <<"f", "a", "l", "s", "e">>)),
                 is_pra |-> str2bool(GetD(row, "IS_PRA", <<"f", "a", "l", "s", "e">>)),
                 is_inspection |->
                     str2bool(GetD(row, "IS_INSPECTION", <<"f", "a", "l", "s", "e">>))])

\* list(d.keys())[0] if d else "Unknown"
Suggested(d) == IF d /= <<>> THEN d[1].k ELSE <<"U", "n", "k", "n", "o", "w", "n">>

\* the loop of segment_maker.parse_csv_row, lines 77-82: the ids of the
\* names the map knows, in order ...
RECURSIVE ResolveServerGroups(_, _)
ResolveServerGroups(names, server_groups) ==
    IF names = <<>> THEN <<>>
    ELSE (IF DictHas(server_groups, Head(names))
          THEN <<DictGet(server_groups, Head(names))>>
          ELSE <<>>)
         \o ResolveServerGroups(Tail(names), server_groups)

\* mutant: an unknown server-group name is passed over without an error
ServerGroupErrors_None(names, server_groups) == <<>>

\* ... and one error for every name it does not know, in order
RECURSIVE ServerGroupErrors(_, _)
ServerGroupErrors(names, server_groups) ==
    IF names = <<>> THEN <<>>
    ELSE (IF DictHas(server_groups, Head(names))
          THEN <<>>
          ELSE <<[kind |-> "server_group_invalid", name |-> Head(names),
                  suggested |-> Suggested(server_groups)]>>)
         \o ServerGroupErrors(Tail(names), server_groups)

\* segment_maker.parse_csv_row: parses, validates and resolves in one pass
parse_csv_row(row, server_groups, segment_groups) ==
    IF \E c \in {"NAME", "SEGMENT_GROUP_ID", "SERVER_GROUP_IDS", "DOMAINS"} :
           GetD(row, c, <<>>) = NoneVal
    THEN Raised
    ELSE
    LET name == strip(GetD(row, "NAME", <<>>))
        segment_group_name == strip(GetD(row, "SEGMENT_GROUP_ID", <<>>))
        server_group_names ==
            MapStripNonEmpty(split(GetD(row, "SERVER_GROUP_IDS", <<>>), ","))
        domain_names == MapStripNonEmpty(split(GetD(row, "DOMAINS", <<>>), ","))
        server_group_ids == ResolveServerGroups(server_group_names, server_groups)
        errors ==
            (IF name = <<>> THEN <<[kind |-> "name_required"]>> ELSE <<>>)
            \o (IF segment_group_name = <<>> \/ ~DictHas(segment_groups, segment_group_name)
                THEN <<[kind |-> "segment_group_invalid", name |-> segment_group_name,
                        suggested |-> Suggested(segment_groups)]>>
                ELSE <<>>)
            \o (IF domain_names = <<>> THEN <<[kind |-> "domains_required"]>> ELSE <<>>)
            \o ServerGroupErrors(server_group_names, server_groups)
            \o (IF server_group_ids = <<>>
                THEN <<[kind |-> "server_groups_all_invalid_or_missing"]>>
                ELSE <<>>)
    IN  IF errors /= <<>> THEN Rejected(errors)
        ELSE IF GetD(row, "DESCRIPTION", <<>>) = NoneVal THEN Raised
        ELSE Parsed([name |-> name,
                     description |-> strip(GetD(row, "DESCRIPTION", <<>>)),
                     enabled |-> str2bool(GetD(row, "ENABLED", <<"t", "r", "u", "e">>)),
                     segment_group_id |-> DictGet(segment_groups, segment_group_name),
                     server_group_ids |-> server_group_ids,
                     domain_names |-> domain_names,
                     tcp_port_range |-> parse_port_ranges(GetD(row, "TCP_PORTS", <<>>)),
                     udp_port_range |-> parse_port_ranges(GetD(row, "UDP_PORTS", <<>>)),
                     double_encrypt |->
                         str2bool(GetD(row, "DOUBLE_ENCRYPT", <<"f", "a", "l", "s", "e">>))])

(***************************************************************************)
(* Inputs: the tenant and the CSV files                                    *)
(***************************************************************************)
\* the most rows a CSV file of Spec holds
MaxRows == 3

\* the most SDK calls of the row loop that the environment lets fail in a run
MaxErrors == 2

S_web1 == <<"w", "e", "b", "1">>
S_segA == <<"s", "e", "g", "-", "A">>
S_sg1 == <<"s", "g", "1">>
S_sg2 == <<"s", "g", "2">>
S_grp1 == <<"g", "r", "p", "1">>
S_host == <<"a", ".", "e", "x", "a", "m", "p", "l", "e", ".", "c", "o", "m">>
S_h1 == <<"h", "1">>
S_h2 == <<"h", "2">>
S_22 == <<"2", "2">>
S_80 == <<"8", "0">>
S_443 == <<"4", "4", "3">>
S_8443 == <<"8", "4", "4", "3">>
S_3389 == <<"3", "3", "8", "9">>
S_true == <<"t", "r", "u", "e">>

\* what the tenant lists as server groups (two entries share a name: the map
\* keeps the later one), as segment groups and, at the start, as segments
TenantServerGroups ==
    <<[name |-> S_sg1, id |-> <<"1", "0", "0">>],
      [name |-> S_sg2, id |-> <<"1", "0", "2">>],
      [name |-> S_sg1, id |-> <<"1", "0", "1">>]>>

TenantSegmentGroups == <<[name |-> S_grp1, id |-> <<"2", "0", "1">>]>>

TenantSegments ==
    <<[id |-> <<"a", "p", "p", "0">>, name |-> S_segA,
       domain_names |-> <<S_h1, S_h2>>,
       tcp_port_range |-> <<[from |-> S_22, to |-> S_22],
                            [from |-> S_8443, to |-> S_8443]>>]>>

Digits == <<"1", "2", "3", "4", "5", "6", "7", "8", "9">>

\* the identifier the tenant gives the n-th segment it holds
SegmentId(n) == <<"a", "p", "p", Digits[n]>>

\* the row of the end-to-end scenario
RowWeb1 ==
    "NAME" :> S_web1 @@ "DOMAINS" :> S_host @@ "SERVER_GROUP_IDS" :> S_sg1
    @@ "SEGMENT_GROUP_ID" :> S_grp1 @@ "TCP_PORTS" :> S_443
    @@ "IS_BROWSER_ACCESS" :> S_true

\* a row named like a segment of the tenant, with padded cells, a repeated
\* server group, two domains, and both kinds of child application
RowSegA ==
    "NAME" :> (<<" ">> \o S_segA)
    @@ "DESCRIPTION" :> <<" ", "d", "b">>
    @@ "ENABLED" :> <<"n", "o">>
    @@ "DOMAINS" :> (S_h1 \o <<",", " ">> \o S_h2)
    @@ "SERVER_GROUP_IDS" :> (S_sg2 \o <<",", " ">> \o S_sg1 \o <<",">> \o S_sg2)
    @@ "SEGMENT_GROUP_ID" :> (S_grp1 \o <<" ">>)
    @@ "TCP_PORTS" :> (S_22 \o <<",", " ">> \o S_8443)
    @@ "UDP_PORTS" :> <<"5", "3">>
    @@ "DOUBLE_ENCRYPT" :> <<"1">>
    @@ "IS_BROWSER_ACCESS" :> <<"Y", "E", "S">>
    @@ "IS_PRA" :> <<"1">>
    @@ "IS_INSPECTION" :> <<"Y">>

\* a row naming a server group the tenant does not have
RowBadGroup ==
    "NAME" :> <<"b", "a", "d">> @@ "DOMAINS" :> S_h1
    @@ "SERVER_GROUP_IDS" :> (<<"s", "g", "X", ",">> \o S_sg1)
    @@ "SEGMENT_GROUP_ID" :> S_grp1 @@ "TCP_PORTS" :> S_22

\* a row whose NAME is one space
RowBlankName ==
    "NAME" :> <<" ">> @@ "DOMAINS" :> <<"r">> @@ "SERVER_GROUP_IDS" :> S_sg1
    @@ "SEGMENT_GROUP_ID" :> S_grp1 @@ "TCP_PORTS" :> (S_3389 \o <<",">> \o S_80)
    @@ "IS_PRA" :> <<"y">>

RowPool == {RowWeb1, RowSegA, RowBadGroup, RowBlankName}

RECURSIVE FilesOfLength(_)
FilesOfLength(n) ==
    IF n = 0 THEN {<<>>}
    ELSE {Append(f, r) : f \in FilesOfLength(n - 1), r \in RowPool}

CsvFiles == UNION {FilesOfLength(n) : n \in 1..MaxRows}

\* A cell a CSV row may lack altogether (the header has no such column)
Absent == <<"Absent">>

Cell(column, value) == IF value = Absent THEN <<>> ELSE column :> value

NameCells ==
    {Absent, NoneVal, <<>>, <<" ">>, S_web1, <<" ">> \o S_segA \o <<" ">>}

DomainCells ==
    {Absent, <<" ">>, <<",">>, S_h1, S_h1 \o <<",", ",", " ">> \o S_h2}

ServerGroupCells ==
    {Absent, <<" ">>, <<",">>, S_sg1, S_sg1 \o <<",">>,
     S_sg2 \o <<",", " ">> \o S_sg1 \o <<",">> \o S_sg1,
     S_sg1 \o <<",", "s", "g", "X">>}

SegmentGroupCells == {Absent, S_grp1, <<" ">> \o S_grp1, <<"g", "r", "p", "X">>}

\* the remaining cells, varied together
OtherCells ==
    {"TCP_PORTS" :> S_443 @@ "IS_BROWSER_ACCESS" :> S_true,
     "TCP_PORTS" :> (<<" ">> \o S_3389 \o <<",">> \o S_22 \o <<" ", ",">> \o S_80 \o <<",">>)
         @@ "IS_PRA" :> <<"T", "R", "U", "E">> @@ "UDP_PORTS" :> NoneVal,
     "DESCRIPTION" :> NoneVal}

\* the rows of the one-row CSV files of SpecRow
RichRows ==
    {Cell("NAME", n) @@ Cell("DOMAINS", dm) @@ Cell("SERVER_GROUP_IDS", sg)
       @@ Cell("SEGMENT_GROUP_ID", g) @@ o :
         n \in NameCells, dm \in DomainCells, sg \in ServerGroupCells,
         g \in SegmentGroupCells, o \in OtherCells}

OneRowFiles == {<<r>> : r \in RichRows}

\* the one-row files of SpecCell: a valid row of which one port cell or one
\* boolean cell varies
CellBase ==
    "NAME" :> S_web1 @@ "DOMAINS" :> S_h1 @@ "SERVER_GROUP_IDS" :> S_sg1
    @@ "SEGMENT_GROUP_ID" :> S_grp1

PortCells ==
    {Absent, NoneVal, <<>>, <<" ">>, <<",">>, <<" ", ",", " ", ",">>,
     S_80 \o <<",">> \o S_443 \o <<",">> \o S_8443,
     <<" ">> \o S_3389 \o <<" ", ",", ",">> \o S_22 \o <<",", " ">> \o S_80 \o <<" ">>,
     S_8443 \o <<",">> \o S_22 \o <<",">>,
     S_22 \o <<",">> \o S_22 \o <<",">> \o S_3389}

PortRows ==
    {CellBase @@ Cell("TCP_PORTS", c) @@ "UDP_PORTS" :> <<"5", "3">>
       @@ "IS_BROWSER_ACCESS" :> S_true @@ "IS_PRA" :> S_true : c \in PortCells}

BoolColumns == {"ENABLED", "DOUBLE_ENCRYPT", "IS_BROWSER_ACCESS", "IS_PRA", "IS_INSPECTION"}

BoolCells ==
    {Absent, NoneVal, <<>>, <<"1">>, S_true, <<"T", "R", "U", "E">>,
     <<"T", "r", "u", "e">>, <<"y", "e", "s">>, <<"Y", "e", "S">>, <<"y">>, <<"Y">>,
     <<"0">>, <<"n", "o">>, <<"f", "a", "l", "s", "e">>, <<"o", "n">>, <<"t">>,
     <<" ", "t", "r", "u", "e">>, <<"y", "e", "s", "s">>, <<"1", "1">>}

BoolRows ==
    {CellBase @@ "TCP_PORTS" :> (S_22 \o <<",">> \o S_443) @@ Cell(c, v) :
         c \in BoolColumns, v \in BoolCells}

CellFiles == {<<r>> : r \in PortRows \cup BoolRows}

\* the files of SpecTenant, one row shorter than the longest of Spec
ShortFiles == UNION {FilesOfLength(n) : n \in 1..(MaxRows - 1)}

\* segments that come close to the row seg-A (first domain h1, ports 22 and
\* 8443): the same ports in the other order, more ports, another domain
NearSegments ==
    <<[id |-> <<"a", "p", "p", "6">>, name |-> <<"t", "u", "r", "n">>,
       domain_names |-> <<S_h1>>,
       tcp_port_range |-> <<[from |-> S_8443, to |-> S_8443],
                            [from |-> S_22, to |-> S_22]>>],
      [id |-> <<"a", "p", "p", "7">>, name |-> <<"w", "i", "d", "e">>,
       domain_names |-> <<S_host, S_h1>>,
       tcp_port_range |-> <<[from |-> S_22, to |-> S_22],
                            [from |-> S_8443, to |-> S_8443],
                            [from |-> S_80, to |-> S_80]>>],
      [id |-> <<"a", "p", "p", "8">>, name |-> <<"o", "f", "f">>,
       domain_names |-> <<S_h2>>,
       tcp_port_range |-> <<[from |-> S_22, to |-> S_22],
                            [from |-> S_8443, to |-> S_8443]>>]>>

\* the tenants of SpecTenant: they differ only in the segments they hold
\* (none; seg-A; seg-A and a segment like the row web1; the near misses)
Tenants ==
    {<<>>,
     TenantSegments,
     NearSegments,
     TenantSegments
       \o <<[id |-> <<"a", "p", "p", "9">>, name |-> S_web1,
             domain_names |-> <<S_host>>,
             tcp_port_range |-> <<[from |-> S_443, to |-> S_443]>>]>>}

(***************************************************************************)
(* State                                                                   *)
(***************************************************************************)
VARIABLES
    prog,                    \* which script runs: "import" or "maker"
    corpus,                  \* which CSV files the run may be given
    csv,                     \* the CSV file read: the rows csv.DictReader yields
    force,                   \* args.force, once the arguments are parsed
    tenant,                  \* the segments the tenant holds (environment)
    pc,                      \* where main() stands
    server_groups,           \* dict name -> id
    segment_groups,          \* dict name -> id
    existing_segment_names,  \* import: the names fetched before the loop
    rows,                    \* the parsed rows the loop runs over
    rowLine,                 \* history: the CSV line each parsed row came from
    i,                       \* the loop's position in rows
    d,                       \* import: position in row['domain_names']
    p,                       \* import: position in row['tcp_ports']
    parent_id,               \* import: parent_segment.id, None after a failed create
    created_count,
    configured_apps,
    log,                     \* history: SDK calls and the per-row prints
    visited,                 \* history: the positions the loop has taken
    steps,                   \* history: the steps taken on each CSV line
    issued,                  \* history: the create calls made, by loop position
    result,                  \* the counts handed to the final print
    category,                \* zia: what get_category returned
    existing_urls,           \* zia: set(category.urls)
    urls_file,               \* zia: the file of URLs read (CSV rows, or text lines)
    ticket_id,               \* url_update: the Ticket ID taken from the file
    urls_to_add,             \* zia: the URLs taken from the file
    custom_categories,       \* url_manager: what fetch_custom_categories returned
    filtering_policies,      \* url_manager: what fetch_url_filtering_policies returned
    analysis,                \* url_manager: what analyze_category_usage returned
    port_ranges,             \* export: a segment's tcp_port_range or udp_port_range
    port_string,             \* export: the cell written for it
    reimported               \* the ranges an import script reads back from the cell

vars == <<prog, corpus, csv, force, tenant, pc, server_groups, segment_groups,
          existing_segment_names, rows, rowLine, i, d, p, parent_id,
          created_count, configured_apps, log, visited, steps, issued, result,
          category, existing_urls, urls_file, ticket_id, urls_to_add,
          custom_categories, filtering_policies, analysis,
          port_ranges, port_string, reimported>>

\* the state of the scripts other than the two bulk provisioning scripts
tools == <<category, existing_urls, urls_file, ticket_id, urls_to_add,
           custom_categories, filtering_policies, analysis,
           port_ranges, port_string, reimported>>

\* the state of the two bulk provisioning scripts, past their common part
zpa == <<corpus, csv, force, tenant, server_groups, segment_groups,
         existing_segment_names, rows, rowLine, i, d, p, parent_id,
         created_count, configured_apps, visited, steps, issued, result>>

\* an SDK call as recorded in the log
Call(op, line, err, args, ret) ==
    [op |-> op, line |-> line, err |-> err, args |-> args, ret |-> ret]

\* a step of the script on a CSV line, as recorded in steps
Step(L, what) == [line |-> L, step |-> what]

\* a create call as recorded in issued: the CSV line of the row, the kind of
\* segment asked for and, for a child, the positions the two loops stood at
Issue(L, kind, dpos, ppos, err) ==
    [line |-> L, kind |-> kind, d |-> dpos, p |-> ppos, err |-> err]

\* a print as recorded in the log
Printed(op, line, detail) == [op |-> op, line |-> line, detail |-> detail]

\* the failures injected so far into the calls of the row loop
Errs == Cardinality({n \in DOMAIN log : log[n].line > 0 /\ "err" \in DOMAIN log[n] /\ log[n].err})

\* the outcomes the environment may give the next call of the row loop
Outcomes == IF Errs < MaxErrors THEN {FALSE, TRUE} ELSE {FALSE}

\* the variables of the other scripts, before any of them has run
ToolsIdle ==
    /\ category = NoneVal
    /\ existing_urls = {}
    /\ urls_file = <<>>
    /\ ticket_id = NoneVal
    /\ urls_to_add = {}
    /\ custom_categories = <<>>
    /\ filtering_policies = <<>>
    /\ analysis = NoneVal
    /\ port_ranges = <<>>
    /\ port_string = NoneVal
    /\ reimported = NoneVal

InitWith(files) ==
    /\ prog \in {"import", "maker"}
    /\ corpus = files
    /\ csv = <<>>
    /\ force = FALSE
    /\ tenant \in (IF files = "tenants" THEN Tenants ELSE {TenantSegments})
    /\ pc = "list_server_groups"
    /\ server_groups = <<>>
    /\ segment_groups = <<>>
    /\ existing_segment_names = {}
    /\ rows = <<>>
    /\ rowLine = <<>>
    /\ i = 0
    /\ d = 0
    /\ p = 0
    /\ parent_id = <<>>
    /\ created_count = 0
    /\ configured_apps = 0
    /\ log = <<>>
    /\ visited = <<>>
    /\ steps = <<>>
    /\ issued = <<>>
    /\ result = <<>>
    /\ ToolsIdle

Init == InitWith("batches")

(***************************************************************************)
(* main(), up to the row loop                                              *)
(***************************************************************************)
\* list_server_groups: an error gives {}, a listing its name -> id dict
ListServerGroups ==
    /\ pc = "list_server_groups"
    /\ \E outcome \in {"err", "empty", "listed"} :
        /\ server_groups' =
               IF outcome = "listed" THEN DictOfGroups(TenantServerGroups, <<>>) ELSE <<>>
        /\ log' = Append(log, Call("server_groups.list_groups", 0, outcome = "err",
                                   <<>>, <<>>))
    /\ pc' = "list_segment_groups"
    /\ UNCHANGED <<issued, steps, tools, prog, corpus, csv, force, tenant, segment_groups, existing_segment_names,
                   rows, rowLine, i, d, p, parent_id, created_count,
                   configured_apps, visited, result>>

ListSegmentGroups ==
    /\ pc = "list_segment_groups"
    /\ \E outcome \in {"err", "empty", "listed"} :
        /\ segment_groups' =
               IF outcome = "listed" THEN DictOfGroups(TenantSegmentGroups, <<>>) ELSE <<>>
        /\ log' = Append(log, Call("segment_groups.list_groups", 0, outcome = "err",
                                   <<>>, <<>>))
    /\ pc' = "check_groups"
    /\ UNCHANGED <<issued, steps, tools, prog, corpus, csv, force, tenant, server_groups, existing_segment_names,
                   rows, rowLine, i, d, p, parent_id, created_count,
                   configured_apps, visited, result>>

\* mutant: the run is given up only when both dicts are empty
CheckGroups_Lenient ==
    /\ pc = "check_groups"
    /\ pc' = IF server_groups = <<>> /\ segment_groups = <<>> THEN "exit"
             ELSE IF prog = "import" THEN "list_segments"
             ELSE "read_csv"
    /\ UNCHANGED <<issued, steps, tools, prog, corpus, csv, force, tenant, server_groups, segment_groups,
                   existing_segment_names, rows, rowLine, i, d, p, parent_id,
                   created_count, configured_apps, log, visited, result>>

\* the fatal precondition: sys.exit when either dict is empty
CheckGroups ==
    /\ pc = "check_groups"
    /\ pc' = IF server_groups = <<>> \/ segment_groups = <<>> THEN "exit"
             ELSE IF prog = "import" THEN "list_segments"
             ELSE "read_csv"
    /\ UNCHANGED <<issued, steps, tools, prog, corpus, csv, force, tenant, server_groups, segment_groups,
                   existing_segment_names, rows, rowLine, i, d, p, parent_id,
                   created_count, configured_apps, log, visited, result>>

\* import_segments.main: the names of the existing segments, {} on an error
ListSegments ==
    /\ pc = "list_segments"
    /\ prog = "import"
    /\ \E err \in BOOLEAN :
        /\ existing_segment_names' =
               IF err THEN {} ELSE {tenant[n].name : n \in DOMAIN tenant}
        /\ log' = Append(log, Call("application_segment.list_segments", 0, err,
                                   <<>>, <<>>))
    /\ pc' = "read_csv"
    /\ UNCHANGED <<issued, steps, tools, prog, corpus, csv, force, tenant, server_groups, segment_groups, rows,
                   rowLine, i, d, p, parent_id, created_count, configured_apps,
                   visited, result>>

\* what either script's row parser gives for a CSV row
ParseRow(row) ==
    IF prog = "import" THEN parse_csv_row_import(row)
    ELSE parse_csv_row(row, server_groups, segment_groups)

\* the CSV lines read before the parser raises (all of them if it never does)
LinesRead(file) ==
    LET raising == {n \in DOMAIN file : ParseRow(file[n]).tag = "raise"}
    IN  IF raising = {} THEN Len(file)
        ELSE (CHOOSE n \in raising : \A m \in raising : n <= m) - 1

\* the CSV lines handed to the parser: those read, and the one it raised on
LinesParsed(file) ==
    IF LinesRead(file) < Len(file) THEN LinesRead(file) + 1 ELSE Len(file)

\* the lines among 1..n whose parse result has the given tag, in order
RECURSIVE LinesTagged(_, _, _)
LinesTagged(file, n, tag) ==
    IF n = 0 THEN <<>>
    ELSE LinesTagged(file, n - 1, tag)
         \o (IF ParseRow(file[n]).tag = tag THEN <<n>> ELSE <<>>)

\* the CSV files a run may be given
Files ==
    IF corpus = "rows" THEN OneRowFiles
    ELSE IF corpus = "cells" THEN CellFiles
    ELSE IF corpus = "tenants" THEN ShortFiles
    ELSE CsvFiles

\* argparse, then the CSV file is read and every row parsed: a missing file
\* and an empty result end the run with sys.exit, an exception of the parser
\* ends it with a traceback; the rows the parser rejects are printed
ReadCsv ==
    /\ pc = "read_csv"
    /\ \E flag \in BOOLEAN :
        /\ force' = flag
        /\ \/ /\ pc' = "exit"                            \* FileNotFoundError
              /\ UNCHANGED <<csv, rows, rowLine, log, i, steps>>
           \/ \E file \in Files :
               LET kept == LinesTagged(file, LinesRead(file), "ok")
                   dropped == LinesTagged(file, LinesRead(file), "none")
               IN  /\ csv' = file
                   /\ steps' = [n \in 1..LinesParsed(file) |-> Step(n, "parse_csv_row")]
                   /\ log' = log \o [n \in DOMAIN dropped |->
                                        Printed("print.row_rejected", dropped[n],
                                                ParseRow(file[dropped[n]]).errors)]
                   /\ IF LinesRead(file) < Len(file)
                      THEN pc' = "crashed" /\ UNCHANGED <<rows, rowLine, i>>
                      ELSE /\ rows' = [n \in DOMAIN kept |-> ParseRow(file[kept[n]]).val]
                           /\ rowLine' = kept
                           /\ IF kept = <<>>
                              THEN pc' = "exit" /\ UNCHANGED i
                              ELSE pc' = "loop" /\ i' = 1
    /\ UNCHANGED <<issued, tools, prog, corpus, tenant, server_groups, segment_groups,
                   existing_segment_names, d, p, parent_id, created_count,
                   configured_apps, visited, result>>

(***************************************************************************)
(* import_segments.create_and_configure_segments                           *)
(***************************************************************************)
row == rows[i]

line == rowLine[i]

\* mutant: break where the code says continue
NextRow_Break == pc' = "loop" /\ i' = Len(rows) + 1

NextRow == pc' = "loop" /\ i' = i + 1

\* [sg for sg in names if sg not in server_groups_map]
RECURSIVE MissingGroups(_, _)
MissingGroups(names, map) ==
    IF names = <<>> THEN <<>>
    ELSE (IF DictHas(map, Head(names)) THEN <<>> ELSE <<Head(names)>>)
         \o MissingGroups(Tail(names), map)

\* mutant: the identifiers come out in reverse order
LookupAll_Reversed(names, map) ==
    [j \in 1..Len(names) |-> DictGet(map, names[Len(names) + 1 - j])]

\* [server_groups_map[sg_name] for sg_name in server_group_names]
RECURSIVE LookupAll(_, _)
LookupAll(names, map) ==
    IF names = <<>> THEN <<>>
    ELSE <<DictGet(map, Head(names))>> \o LookupAll(Tail(names), map)

\* the keyword arguments of the parent create call
create_payload(r) ==
    [name |-> r.name, description |-> r.description, enabled |-> r.enabled,
     segment_group_id |-> DictGet(segment_groups, r.segment_group_name),
     server_group_ids |-> LookupAll(r.server_group_names, server_groups),
     domain_names |-> r.domain_names,
     tcp_port_range |-> PortRanges(r.tcp_ports),
     udp_port_range |-> PortRanges(r.udp_ports),
     double_encrypt |-> r.double_encrypt,
     app_protection_enabled |-> r.is_inspection]

\* what the tenant holds once a create call succeeded
Stored(id, args) ==
    [id |-> id, name |-> args.name, domain_names |-> args.domain_names,
     tcp_port_range |-> args.tcp_port_range]

\* mutant: the check without its "not force"
SkipExisting_IgnoringForce(r) == r.name \in existing_segment_names

\* mutant: the check also sees the segments created during the run
SkipExisting_SeesCreated(r) ==
    /\ ~force
    /\ \/ r.name \in existing_segment_names
       \/ \E n \in DOMAIN tenant : tenant[n].name = r.name

\* whether the name-keyed check skips the row (line 66)
SkipExisting(r) == ~force /\ r.name \in existing_segment_names

\* for row in rows: the next row is taken and checked against the names
ImportLoop ==
    /\ prog = "import"
    /\ pc = "loop"
    /\ i <= Len(rows)
    /\ visited' = Append(visited, i)
    /\ IF SkipExisting(row)
       THEN /\ log' = Append(log, Printed("print.skip_existing", line, row.name))
            /\ NextRow
       ELSE /\ pc' = "validate"
            /\ UNCHANGED <<log, i>>
    /\ steps' = Append(steps, Step(line, "check_exists"))
    /\ UNCHANGED <<issued, tools, prog, corpus, csv, force, tenant, server_groups, segment_groups,
                   existing_segment_names, rows, rowLine, d, p, parent_id,
                   created_count, configured_apps, result>>

\* the validation step (lines 72-80)
ImportValidate ==
    /\ pc = "validate"
    /\ LET missing_sgs == MissingGroups(row.server_group_names, server_groups)
       IN  IF missing_sgs /= <<>>
           THEN /\ log' = Append(log, Printed("print.skip_server_groups", line,
                                              missing_sgs))
                /\ NextRow
           ELSE IF ~DictHas(segment_groups, row.segment_group_name)
           THEN /\ log' = Append(log, Printed("print.skip_segment_group", line,
                                              row.segment_group_name))
                /\ NextRow
           ELSE /\ pc' = "add_segment"
                /\ UNCHANGED <<log, i>>
    /\ steps' = Append(steps, Step(line, "validate"))
    /\ UNCHANGED <<issued, tools, prog, corpus, csv, force, tenant, server_groups, segment_groups,
                   existing_segment_names, rows, rowLine, d, p, parent_id,
                   created_count, configured_apps, visited, result>>

\* mutant: the children are configured without looking at err
AfterParent_Unchecked(err) == pc' = "ba" /\ i' = i

\* mutant: a failed parent create ends the whole loop
AfterParent_Abort(err) ==
    IF err THEN pc' = "loop" /\ i' = Len(rows) + 1 ELSE pc' = "ba" /\ i' = i

\* mutant: after a failed parent create the same row is taken again
AfterParent_Retry(err) == IF err THEN pc' = "loop" /\ i' = i ELSE pc' = "ba" /\ i' = i

\* where the row goes after its parent create call returned
AfterParent(err) == IF err THEN NextRow ELSE pc' = "ba" /\ i' = i

\* mutant: a created segment's name is added to the names fetched before
\* the loop
ImportAddSegment_Remembers ==
    /\ prog = "import"
    /\ pc = "add_segment"
    /\ \E err \in Outcomes :
        LET id == SegmentId(Len(tenant) + 1)
            args == create_payload(row)
        IN  /\ log' = Append(log, Call("application_segment.add_segment", line, err,
                                       args, IF err THEN <<>> ELSE id))
            /\ parent_id' = (IF err THEN NoneVal ELSE id)
            /\ issued' = Append(issued, Issue(line, "parent", 0, 0, err))
            /\ AfterParent(err)
            /\ IF err
               THEN UNCHANGED <<tenant, created_count, existing_segment_names>>
               ELSE /\ tenant' = Append(tenant, Stored(id, args))
                    /\ created_count' = created_count + 1
                    /\ existing_segment_names' = existing_segment_names \cup {args.name}
    /\ d' = 1
    /\ p' = 1
    /\ steps' = Append(steps, Step(line, "add_segment"))
    /\ UNCHANGED <<tools, prog, corpus, csv, force, server_groups, segment_groups,
                   rows, rowLine, configured_apps, visited, result>>

\* 1. the parent application segment (lines 84-103)
ImportAddSegment ==
    /\ prog = "import"
    /\ pc = "add_segment"
    /\ \E err \in Outcomes :
        LET id == SegmentId(Len(tenant) + 1)
            args == create_payload(row)
        IN  /\ log' = Append(log, Call("application_segment.add_segment", line, err,
                                       args, IF err THEN <<>> ELSE id))
            /\ parent_id' = (IF err THEN NoneVal ELSE id)
            /\ issued' = Append(issued, Issue(line, "parent", 0, 0, err))
            /\ AfterParent(err)
            /\ IF err
               THEN UNCHANGED <<tenant, created_count>>
               ELSE /\ tenant' = Append(tenant, Stored(id, args))
                    /\ created_count' = created_count + 1
    /\ d' = 1
    /\ p' = 1
    /\ steps' = Append(steps, Step(line, "add_segment"))
    /\ UNCHANGED <<tools, prog, corpus, csv, force, server_groups, segment_groups,
                   existing_segment_names, rows, rowLine, configured_apps,
                   visited, result>>

\* the nested loops "for domain in domain_names: for port in tcp_ports"
HasPair == d <= Len(row.domain_names) /\ row.tcp_ports /= <<>>

\* mutant: the inner loop ends after its first port
NextPair_FirstPortOnly == d' = d + 1 /\ p' = 1

NextPair ==
    IF p < Len(row.tcp_ports)
    THEN d' = d /\ p' = p + 1
    ELSE d' = d + 1 /\ p' = 1

domain == row.domain_names[d]

port == row.tcp_ports[p]

\* mutant: only port "443" is taken for HTTPS
ba_protocol_Only443(pt) ==
    IF pt = S_443 THEN <<"H", "T", "T", "P", "S">> ELSE <<"H", "T", "T", "P">>

ba_protocol(pt) ==
    IF pt \in {S_443, S_8443} THEN <<"H", "T", "T", "P", "S">> ELSE <<"H", "T", "T", "P">>

\* mutant: the display name lacks the port
ba_name_DomainOnly(dm, pt) == dm

ba_name(dm, pt) == dm \o <<":">> \o pt

\* mutant: a failed browser-access child is asked for again
ImportAddBA_RetryOnError ==
    /\ pc = "ba"
    /\ row.is_browser_access
    /\ HasPair
    /\ \E err \in Outcomes :
        /\ log' = Append(log, Call("app_segments_ba.add_segment", line, err,
                                   [segment_id |-> parent_id,
                                    name |-> ba_name(domain, port),
                                    domain |-> domain,
                                    application_port |-> port,
                                    application_protocol |-> ba_protocol(port),
                                    enabled |-> TRUE],
                                   <<>>))
        /\ configured_apps' = IF err THEN configured_apps ELSE configured_apps + 1
        /\ issued' = Append(issued, Issue(line, "ba", d, p, err))
        /\ IF err THEN UNCHANGED <<d, p>> ELSE NextPair
    /\ steps' = Append(steps, Step(line, "add_child"))
    /\ UNCHANGED <<tools, prog, corpus, csv, force, tenant, pc, server_groups, segment_groups,
                   existing_segment_names, rows, rowLine, i, parent_id,
                   created_count, visited, result>>

\* mutant: a failed browser-access child ends the loops over the pairs
ImportAddBA_StopOnError ==
    /\ pc = "ba"
    /\ row.is_browser_access
    /\ HasPair
    /\ \E err \in Outcomes :
        /\ log' = Append(log, Call("app_segments_ba.add_segment", line, err,
                                   [segment_id |-> parent_id,
                                    name |-> ba_name(domain, port),
                                    domain |-> domain,
                                    application_port |-> port,
                                    application_protocol |-> ba_protocol(port),
                                    enabled |-> TRUE],
                                   <<>>))
        /\ configured_apps' = IF err THEN configured_apps ELSE configured_apps + 1
        /\ issued' = Append(issued, Issue(line, "ba", d, p, err))
        /\ IF err THEN d' = Len(row.domain_names) + 1 /\ p' = 1 ELSE NextPair
    /\ steps' = Append(steps, Step(line, "add_child"))
    /\ UNCHANGED <<tools, prog, corpus, csv, force, tenant, pc, server_groups, segment_groups,
                   existing_segment_names, rows, rowLine, i, parent_id,
                   created_count, visited, result>>

\* 2. one browser-access child application (lines 108-115)
ImportAddBA ==
    /\ pc = "ba"
    /\ row.is_browser_access
    /\ HasPair
    /\ \E err \in Outcomes :
        /\ log' = Append(log, Call("app_segments_ba.add_segment", line, err,
                                   [segment_id |-> parent_id,
                                    name |-> ba_name(domain, port),
                                    domain |-> domain,
                                    application_port |-> port,
                                    application_protocol |-> ba_protocol(port),
                                    enabled |-> TRUE],
                                   <<>>))
        /\ configured_apps' = IF err THEN configured_apps ELSE configured_apps + 1
        /\ issued' = Append(issued, Issue(line, "ba", d, p, err))
    /\ NextPair
    /\ steps' = Append(steps, Step(line, "add_child"))
    /\ UNCHANGED <<tools, prog, corpus, csv, force, tenant, pc, server_groups, segment_groups,
                   existing_segment_names, rows, rowLine, i, parent_id,
                   created_count, visited, result>>

\* the browser-access loops are over, or the row asks for none
ImportEndBA ==
    /\ pc = "ba"
    /\ ~(row.is_browser_access /\ HasPair)
    /\ pc' = "pra"
    /\ d' = 1
    /\ p' = 1
    /\ UNCHANGED <<issued, steps, tools, prog, corpus, csv, force, tenant, server_groups, segment_groups,
                   existing_segment_names, rows, rowLine, i, parent_id,
                   created_count, configured_apps, log, visited, result>>

\* mutant: every port other than "22" is taken for RDP
pra_protocol_Default(pt) ==
    IF pt = S_22 THEN <<"S", "S", "H">> ELSE <<"R", "D", "P">>

pra_protocol(pt) ==
    IF pt = S_22 THEN <<"S", "S", "H">>
    ELSE IF pt = S_3389 THEN <<"R", "D", "P">>
    ELSE NoneVal

pra_name(protocol, dm, pt) == protocol \o <<"-">> \o dm \o <<":">> \o pt

\* mutant: a PRA child is counted whether or not its create failed
ImportAddPRA_CountsAll ==
    /\ pc = "pra"
    /\ row.is_pra
    /\ HasPair
    /\ LET protocol == pra_protocol(port)
       IN  IF protocol = NoneVal
           THEN UNCHANGED <<log, configured_apps, steps, issued>>
           ELSE \E err \in Outcomes :
               /\ log' = Append(log, Call("app_segments_pra.add_segment", line, err,
                                          [segment_id |-> parent_id,
                                           name |-> pra_name(protocol, domain, port),
                                           domain |-> domain,
                                           application_port |-> port,
                                           application_protocol |-> protocol,
                                           enabled |-> TRUE],
                                          <<>>))
               /\ configured_apps' = configured_apps + 1
               /\ steps' = Append(steps, Step(line, "add_child"))
               /\ issued' = Append(issued, Issue(line, "pra", d, p, err))
    /\ NextPair
    /\ UNCHANGED <<tools, prog, corpus, csv, force, tenant, pc, server_groups, segment_groups,
                   existing_segment_names, rows, rowLine, i, parent_id,
                   created_count, visited, result>>

\* 3. one (domain, port) pair of the PRA loops (lines 120-128): a port that
\* is neither "22" nor "3389" is passed over
ImportAddPRA ==
    /\ pc = "pra"
    /\ row.is_pra
    /\ HasPair
    /\ LET protocol == pra_protocol(port)
       IN  IF protocol = NoneVal
           THEN UNCHANGED <<log, configured_apps, steps, issued>>
           ELSE \E err \in Outcomes :
               /\ log' = Append(log, Call("app_segments_pra.add_segment", line, err,
                                          [segment_id |-> parent_id,
                                           name |-> pra_name(protocol, domain, port),
                                           domain |-> domain,
                                           application_port |-> port,
                                           application_protocol |-> protocol,
                                           enabled |-> TRUE],
                                          <<>>))
               /\ configured_apps' =
                      IF err THEN configured_apps ELSE configured_apps + 1
               /\ steps' = Append(steps, Step(line, "add_child"))
               /\ issued' = Append(issued, Issue(line, "pra", d, p, err))
    /\ NextPair
    /\ UNCHANGED <<tools, prog, corpus, csv, force, tenant, pc, server_groups, segment_groups,
                   existing_segment_names, rows, rowLine, i, parent_id,
                   created_count, visited, result>>

\* the PRA loops are over, or the row asks for none: on to the next row
ImportEndPRA ==
    /\ pc = "pra"
    /\ ~(row.is_pra /\ HasPair)
    /\ NextRow
    /\ UNCHANGED <<issued, steps, tools, prog, corpus, csv, force, tenant, server_groups, segment_groups,
                   existing_segment_names, rows, rowLine, d, p, parent_id,
                   created_count, configured_apps, log, visited, result>>

\* mutant: the two counts returned in the wrong order
ImportReturn_Swapped ==
    /\ prog = "import"
    /\ pc = "loop"
    /\ i > Len(rows)
    /\ result' = [segments_created |-> configured_apps,
                  child_apps_configured |-> created_count]
    /\ pc' = "done"
    /\ UNCHANGED <<issued, steps, tools, prog, corpus, csv, force, tenant, server_groups, segment_groups,
                   existing_segment_names, rows, rowLine, i, d, p, parent_id,
                   created_count, configured_apps, log, visited>>

\* return created_count, configured_apps; main prints both
ImportReturn ==
    /\ prog = "import"
    /\ pc = "loop"
    /\ i > Len(rows)
    /\ result' = [segments_created |-> created_count,
                  child_apps_configured |-> configured_apps]
    /\ pc' = "done"
    /\ UNCHANGED <<issued, steps, tools, prog, corpus, csv, force, tenant, server_groups, segment_groups,
                   existing_segment_names, rows, rowLine, i, d, p, parent_id,
                   created_count, configured_apps, log, visited>>

(***************************************************************************)
(* segment_maker.create_app_segments                                       *)
(***************************************************************************)
\* for row in rows: with --force the existence check is not evaluated
\* mutant: the attribute-keyed check is made even under --force
MakerLoop_AlwaysChecks ==
    /\ prog = "maker"
    /\ pc = "loop"
    /\ i <= Len(rows)
    /\ visited' = Append(visited, i)
    /\ pc' = "segment_exists"
    /\ UNCHANGED <<issued, steps, tools, prog, corpus, csv, force, tenant, server_groups, segment_groups,
                   existing_segment_names, rows, rowLine, i, d, p, parent_id,
                   created_count, configured_apps, log, result>>

MakerLoop ==
    /\ prog = "maker"
    /\ pc = "loop"
    /\ i <= Len(rows)
    /\ visited' = Append(visited, i)
    /\ pc' = IF force THEN "add_segment" ELSE "segment_exists"
    /\ UNCHANGED <<issued, steps, tools, prog, corpus, csv, force, tenant, server_groups, segment_groups,
                   existing_segment_names, rows, rowLine, i, d, p, parent_id,
                   created_count, configured_apps, log, result>>

\* mutant: the port ranges are compared as sets
Matches_AsSets(segments, dm, ports) ==
    \E n \in DOMAIN segments :
        /\ dm \in Range(segments[n].domain_names)
        /\ Range(segments[n].tcp_port_range) = Range(ports)

\* the comparison loop of segment_exists (lines 119-122)
Matches(segments, dm, ports) ==
    \E n \in DOMAIN segments :
        /\ dm \in Range(segments[n].domain_names)
        /\ segments[n].tcp_port_range = ports

\* mutant: a failed listing counts as "exists"
segment_exists_FailClosed(err, segments, dm, ports) ==
    err \/ Matches(segments, dm, ports)

\* segment_exists(client, domain, ports): False when the listing fails
segment_exists(err, segments, dm, ports) ==
    IF err THEN FALSE ELSE Matches(segments, dm, ports)

\* mutant: the check is made for every domain of the row
MakerSegmentExists_AnyDomain ==
    /\ pc = "segment_exists"
    /\ \E err \in Outcomes :
        /\ IF \E j \in DOMAIN row.domain_names :
                  segment_exists(err, tenant, row.domain_names[j], row.tcp_port_range)
           THEN /\ log' = log
                         \o <<Call("application_segment.list_segments", line, err,
                                   <<>>, <<>>),
                              Printed("print.skip_existing", line,
                                      row.domain_names[1])>>
                /\ NextRow
           ELSE /\ log' = Append(log, Call("application_segment.list_segments",
                                           line, err, <<>>, <<>>))
                /\ pc' = "add_segment"
                /\ UNCHANGED i
    /\ steps' = Append(steps, Step(line, "check_exists"))
    /\ UNCHANGED <<issued, tools, prog, corpus, csv, force, tenant, server_groups, segment_groups,
                   existing_segment_names, rows, rowLine, d, p, parent_id,
                   created_count, configured_apps, visited, result>>

\* the attribute-keyed check of the row: its first domain, its TCP ranges
MakerSegmentExists ==
    /\ pc = "segment_exists"
    /\ \E err \in Outcomes :
        /\ IF segment_exists(err, tenant, row.domain_names[1], row.tcp_port_range)
           THEN /\ log' = log
                         \o <<Call("application_segment.list_segments", line, err,
                                   <<>>, <<>>),
                              Printed("print.skip_existing", line,
                                      row.domain_names[1])>>
                /\ NextRow
           ELSE /\ log' = Append(log, Call("application_segment.list_segments",
                                           line, err, <<>>, <<>>))
                /\ pc' = "add_segment"
                /\ UNCHANGED i
    /\ steps' = Append(steps, Step(line, "check_exists"))
    /\ UNCHANGED <<issued, tools, prog, corpus, csv, force, tenant, server_groups, segment_groups,
                   existing_segment_names, rows, rowLine, d, p, parent_id,
                   created_count, configured_apps, visited, result>>

\* add_segment(**row) and the count (lines 139-144)
MakerAddSegment ==
    /\ prog = "maker"
    /\ pc = "add_segment"
    /\ \E err \in Outcomes :
        LET id == SegmentId(Len(tenant) + 1)
        IN  /\ log' = Append(log, Call("application_segment.add_segment", line, err,
                                       row, IF err THEN <<>> ELSE id))
            /\ issued' = Append(issued, Issue(line, "parent", 0, 0, err))
            /\ IF err
               THEN UNCHANGED <<tenant, created_count>>
               ELSE /\ tenant' = Append(tenant, Stored(id, row))
                    /\ created_count' = created_count + 1
    /\ NextRow
    /\ steps' = Append(steps, Step(line, "add_segment"))
    /\ UNCHANGED <<tools, prog, corpus, csv, force, server_groups, segment_groups,
                   existing_segment_names, rows, rowLine, d, p, parent_id,
                   configured_apps, visited, result>>

\* return created_count; main prints it
MakerReturn ==
    /\ prog = "maker"
    /\ pc = "loop"
    /\ i > Len(rows)
    /\ result' = [segments_created |-> created_count]
    /\ pc' = "done"
    /\ UNCHANGED <<issued, steps, tools, prog, corpus, csv, force, tenant, server_groups, segment_groups,
                   existing_segment_names, rows, rowLine, i, d, p, parent_id,
                   created_count, configured_apps, log, visited>>

Next ==
    \/ ListServerGroups
    \/ ListSegmentGroups
    \/ CheckGroups
    \/ ListSegments
    \/ ReadCsv
    \/ ImportLoop
    \/ ImportValidate
    \/ ImportAddSegment
    \/ ImportAddBA
    \/ ImportEndBA
    \/ ImportAddPRA
    \/ ImportEndPRA
    \/ ImportReturn
    \/ MakerLoop
    \/ MakerSegmentExists
    \/ MakerAddSegment
    \/ MakerReturn

Spec == Init /\ [][Next]_vars

\* the same scripts run on the one-row files, whose cells vary widely
InitRow == InitWith("rows")

SpecRow == InitRow /\ [][Next]_vars

\* the same scripts run on the one-row files in which a single cell varies
InitCell == InitWith("cells")

SpecCell == InitCell /\ [][Next]_vars

\* the same scripts run against tenants that hold different segments
InitTenant == InitWith("tenants")

SpecTenant == InitTenant /\ [][Next]_vars

\* the interpreter always takes the next step of a script that has one
FairSpec == Spec /\ WF_vars(Next)

(***************************************************************************)
(* src/zia/url_update.py and src/zia/add_custom_cats.py: URLs read from a  *)
(* file are added to a custom URL category                                 *)
(***************************************************************************)
\* the most data rows (url_update) or lines (add_custom_cats) of a URL file
MaxLines == 3

U_1 == <<"u", "1">>
U_2 == <<"u", "2">>
U_3 == <<"u", "3">>

\* what category.urls may hold when the category is fetched
CategoryUrls == {<<>>, <<U_1>>, <<U_3, U_1, U_3>>}

\* the category object of the SDK, as far as the scripts read it
Category(urls) ==
    [id |-> <<"C", "U", "S", "T", "O", "M", "_", "0", "1">>,
     configured_name |-> <<"d", "e", "m", "o">>,
     super_category |-> <<"U", "S", "E", "R">>,
     description |-> <<"d">>,
     urls |-> urls]

\* the cells a data row of source_urls.csv may hold under its two columns
\* (None where the line is short)
TicketCells == {<<" ", "T", "7">>, NoneVal}

UrlCells == {NoneVal, <<" ">>, U_1, <<" ">> \o U_2 \o <<" ">>, U_3}

RECURSIVE RowsUpTo(_, _)
RowsUpTo(pool, n) ==
    IF n = 0 THEN {<<>>}
    ELSE RowsUpTo(pool, n - 1)
         \cup {Append(f, r) : f \in {g \in RowsUpTo(pool, n - 1) : Len(g) = n - 1},
                              r \in pool}

\* the files source_urls.csv may be: the header has or lacks either column,
\* and every data row has a cell for each column the header has
UrlCsvFiles ==
    UNION {RowsUpTo({Cell("TicketID", IF hasT THEN t ELSE Absent)
                       @@ Cell("URL", IF hasU THEN u ELSE Absent) :
                         t \in TicketCells, u \in UrlCells}, MaxLines) :
               hasT \in BOOLEAN, hasU \in BOOLEAN}

\* the lines sample_urls.txt may hold; the last line may lack its newline
TextLines ==
    {<<"\n">>, <<" ", "\n">>, U_1 \o <<"\n">>, <<" ">> \o U_2 \o <<" ", "\n">>,
     U_3 \o <<"\n">>}

TextFiles ==
    RowsUpTo(TextLines, MaxLines)
    \cup {Append(f, U_2) : f \in RowsUpTo(TextLines, MaxLines - 1)}

UnknownTicket ==
    <<"U", "N", "K", "N", "O", "W", "N", "_", "T", "I", "C", "K", "E", "T", "_", "I", "D">>

\* url_update lines 56-60: the Ticket ID of the first row; a None cell makes
\* .strip() raise
TicketOf(file) ==
    IF file /= <<>> /\ DOMAIN file[1] /= {} /\ "TicketID" \in DOMAIN file[1]
    THEN IF file[1]["TicketID"] = NoneVal THEN Raised
         ELSE Parsed(strip(file[1]["TicketID"]))
    ELSE Parsed(UnknownTicket)

\* url_update line 63: the set comprehension over the rows the reader still
\* has to yield; row.get("URL", "") of a None cell makes .strip() raise
UrlsOf(remaining) ==
    IF \E n \in DOMAIN remaining : GetD(remaining[n], "URL", <<>>) = NoneVal
    THEN Raised
    ELSE Parsed({strip(remaining[n]["URL"]) :
                    n \in {m \in DOMAIN remaining :
                              strip(GetD(remaining[m], "URL", <<>>)) /= <<>>}})

\* {line.strip() for line in f if line.strip()}
LinesOf(file) ==
    {strip(file[n]) : n \in {m \in DOMAIN file : strip(file[m]) /= <<>>}}

\* the variables of url_manager and of the export check
manager == <<custom_categories, filtering_policies, analysis>>

export == <<port_ranges, port_string, reimported>>

\* Step 2: get_category; an error ends the run
GetCategory ==
    /\ prog \in {"url_update", "add_custom_cats"}
    /\ pc = "get_category"
    /\ \E err \in BOOLEAN, urls \in CategoryUrls :
        /\ log' = Append(log, Call("url_categories.get_category", 0, err, <<>>,
                                   IF err THEN <<>> ELSE Category(urls)))
        /\ IF err
           THEN pc' = "exit" /\ UNCHANGED <<category, existing_urls>>
           ELSE /\ category' = Category(urls)
                /\ existing_urls' = Range(urls)
                /\ pc' = "read_urls"
    /\ UNCHANGED <<zpa, prog, urls_file, ticket_id, urls_to_add, manager, export>>

\* url_update Step 3: next(reader) takes the first data row for the Ticket
\* ID, and the comprehension runs over the rows the reader has left; any
\* exception ends the run
ReadUrlsCsv ==
    /\ prog = "url_update"
    /\ pc = "read_urls"
    /\ \/ pc' = "exit" /\ UNCHANGED <<urls_file, ticket_id, urls_to_add>>   \* no such file
       \/ \E file \in UrlCsvFiles :
           LET first_row == TicketOf(file)
               found == UrlsOf(IF file = <<>> THEN <<>> ELSE Tail(file))
           IN  /\ urls_file' = file
               /\ IF first_row.tag = "raise"
                  THEN pc' = "exit" /\ UNCHANGED <<ticket_id, urls_to_add>>
                  ELSE IF found.tag = "raise"
                  THEN pc' = "exit" /\ ticket_id' = first_row.val /\ UNCHANGED urls_to_add
                  ELSE /\ ticket_id' = first_row.val
                       /\ urls_to_add' = found.val
                       /\ pc' = "combine"
    /\ UNCHANGED <<zpa, prog, log, category, existing_urls, manager, export>>

\* add_custom_cats step 2: the non-blank lines, stripped
ReadUrlsText ==
    /\ prog = "add_custom_cats"
    /\ pc = "read_urls"
    /\ \/ pc' = "exit" /\ UNCHANGED <<urls_file, urls_to_add>>   \* FileNotFoundError
       \/ \E file \in TextFiles :
           /\ urls_file' = file
           /\ urls_to_add' = LinesOf(file)
           /\ pc' = "combine"
    /\ UNCHANGED <<zpa, prog, log, category, existing_urls, ticket_id, manager, export>>

\* new_urls_to_add = urls_to_add - existing_urls
new_urls_to_add == urls_to_add \ existing_urls

\* sys.exit(0) when the file brings nothing new
Combine ==
    /\ prog \in {"url_update", "add_custom_cats"}
    /\ pc = "combine"
    /\ pc' = IF new_urls_to_add = {} THEN "exit" ELSE "update"
    /\ UNCHANGED <<zpa, prog, log, category, existing_urls, urls_file, ticket_id,
                   urls_to_add, manager, export>>

\* the list sent as urls=; its order is that of a Python set and is left out
combined_urls ==
    IF prog = "url_update" THEN existing_urls \cup urls_to_add
    ELSE existing_urls \cup new_urls_to_add

\* f"{category.description} | Updated with Ticket ID: {ticket_id}"
updated_description ==
    category.description
    \o <<" ", "|", " ", "U", "p", "d", "a", "t", "e", "d", " ", "w", "i", "t", "h", " ",
         "T", "i", "c", "k", "e", "t", " ", "I", "D", ":", " ">>
    \o ticket_id

\* the keyword arguments of update_url_category
update_payload ==
    LET kept == [category_id |-> category.id,
                 configured_name |-> category.configured_name,
                 super_category |-> category.super_category,
                 urls |-> combined_urls]
    IN  IF prog = "url_update"
        THEN kept @@ [description |-> updated_description]
        ELSE kept

\* update_url_category; an error ends the run
UpdateCategory ==
    /\ prog \in {"url_update", "add_custom_cats"}
    /\ pc = "update"
    /\ \E err \in BOOLEAN :
        /\ log' = Append(log, Call("url_categories.update_url_category", 0, err,
                                   update_payload, <<>>))
        /\ pc' = IF err THEN "exit" ELSE "activate"
    /\ UNCHANGED <<zpa, prog, category, existing_urls, urls_file, ticket_id,
                   urls_to_add, manager, export>>

\* activate.activate(); an error ends the run
Activate ==
    /\ prog \in {"url_update", "add_custom_cats"}
    /\ pc = "activate"
    /\ \E err \in BOOLEAN :
        /\ log' = Append(log, Call("activate.activate", 0, err, <<>>, <<>>))
        /\ pc' = IF err THEN "exit" ELSE "done"
    /\ UNCHANGED <<zpa, prog, category, existing_urls, urls_file, ticket_id,
                   urls_to_add, manager, export>>

\* the variables of the bulk provisioning scripts, none of which has run
ZpaIdle ==
    /\ corpus = "none"
    /\ csv = <<>>
    /\ force = FALSE
    /\ tenant = <<>>
    /\ server_groups = <<>>
    /\ segment_groups = <<>>
    /\ existing_segment_names = {}
    /\ rows = <<>>
    /\ rowLine = <<>>
    /\ i = 0
    /\ d = 0
    /\ p = 0
    /\ parent_id = <<>>
    /\ created_count = 0
    /\ configured_apps = 0
    /\ visited = <<>>
    /\ steps = <<>>
    /\ issued = <<>>
    /\ result = <<>>

InitZia ==
    /\ prog \in {"url_update", "add_custom_cats"}
    /\ pc = "get_category"
    /\ log = <<>>
    /\ ZpaIdle
    /\ ToolsIdle

NextZia ==
    \/ GetCategory
    \/ ReadUrlsCsv
    \/ ReadUrlsText
    \/ Combine
    \/ UpdateCategory
    \/ Activate

SpecZia == InitZia /\ [][NextZia]_vars

(***************************************************************************)
(* src/zia/url_manager.py: which custom URL categories the URL filtering   *)
(* policies use, and an optional bulk update of one category               *)
(***************************************************************************)
\* the most URL categories, and the most URL filtering policies, listed
MaxCategories == 2

MaxPolicies == 2

CustomPrefix == <<"C", "U", "S", "T", "O", "M", "_">>

Id_Custom1 == CustomPrefix \o <<"0", "1">>
Id_Custom2 == CustomPrefix \o <<"0", "2">>
Id_Adult == <<"A", "D", "U", "L", "T">>

\* str.startswith
startswith(s, prefix) ==
    Len(s) >= Len(prefix) /\ SubSeq(s, 1, Len(prefix)) = prefix

\* the URL categories the tenant may list: two custom ones and a predefined
UrlCategoryPool ==
    {[id |-> Id_Custom1, configured_name |-> <<"A">>],
     [id |-> Id_Custom2, configured_name |-> <<"B">>],
     [id |-> Id_Adult, configured_name |-> NoneVal]}

\* the URL filtering rules the tenant may list; a rule may lack any of the
\* three attributes read with getattr
PolicyPool ==
    {"name" :> <<"p", "1">> @@ "action" :> <<"A", "L", "L", "O", "W">> @@ "url_categories" :> <<Id_Custom1, Id_Adult>>,
     "name" :> <<"p", "2">> @@ "action" :> <<"B", "L", "O", "C", "K">>
         @@ "url_categories" :> <<Id_Custom2, Id_Custom1, Id_Custom2>>,
     "name" :> <<"p", "3">>,
     "action" :> <<"C", "A", "U", "T", "I", "O", "N">> @@ "url_categories" :> <<Id_Adult, Id_Custom1>>}

\* [{"id": ..., "name": ...} for category in url_categories
\*  if category.id.startswith("CUSTOM_")]
RECURSIVE CustomOnly(_)
CustomOnly(listed) ==
    IF listed = <<>> THEN <<>>
    ELSE (IF startswith(Head(listed).id, CustomPrefix)
          THEN <<[id |-> Head(listed).id, name |-> Head(listed).configured_name]>>
          ELSE <<>>)
         \o CustomOnly(Tail(listed))

\* fetch_custom_categories: an error ends the run
FetchCustomCategories ==
    /\ prog = "url_manager"
    /\ pc = "fetch_categories"
    /\ \E err \in BOOLEAN, listed \in RowsUpTo(UrlCategoryPool, MaxCategories) :
        /\ log' = Append(log, Call("url_categories.list_categories", 0, err, <<>>,
                                   IF err THEN <<>> ELSE listed))
        /\ IF err
           THEN pc' = "exit" /\ UNCHANGED custom_categories
           ELSE custom_categories' = CustomOnly(listed) /\ pc' = "fetch_policies"
    /\ UNCHANGED <<zpa, prog, category, existing_urls, urls_file, ticket_id,
                   urls_to_add, filtering_policies, analysis, export>>

\* fetch_url_filtering_policies: an error ends the run
FetchPolicies ==
    /\ prog = "url_manager"
    /\ pc = "fetch_policies"
    /\ \E err \in BOOLEAN, listed \in RowsUpTo(PolicyPool, MaxPolicies) :
        /\ log' = Append(log, Call("url_filtering.list_rules", 0, err, <<>>,
                                   IF err THEN <<>> ELSE listed))
        /\ IF err
           THEN pc' = "exit" /\ UNCHANGED filtering_policies
           ELSE filtering_policies' = listed /\ pc' = "analyze"
    /\ UNCHANGED <<zpa, prog, category, existing_urls, urls_file, ticket_id,
                   urls_to_add, custom_categories, analysis, export>>

\* getattr(policy, "url_categories", [])
category_ids(policy) == GetD(policy, "url_categories", <<>>)

\* the first loop of analyze_category_usage (lines 96-103)
used_category_ids(policies) ==
    {id \in UNION {Range(category_ids(policies[n])) : n \in DOMAIN policies} :
        startswith(id, CustomPrefix)}

\* mutant: only the first policy that names the category is linked
RECURSIVE LinkedPolicies_FirstOnly(_, _)
LinkedPolicies_FirstOnly(id, policies) ==
    IF policies = <<>> THEN <<>>
    ELSE IF id \in Range(category_ids(Head(policies)))
    THEN <<[policy_name |-> GetD(Head(policies), "name", <<"U", "n", "n", "a", "m", "e", "d", " ", "P", "o", "l", "i", "c", "y">>),
            action |-> GetD(Head(policies), "action", <<"N", "o", " ", "A", "c", "t", "i", "o", "n", " ", "D", "e", "f", "i", "n", "e", "d">>)]>>
    ELSE LinkedPolicies_FirstOnly(id, Tail(policies))

\* the inner loop of lines 118-123: one entry per policy that names the
\* category, in the order of the policies
RECURSIVE LinkedPolicies(_, _)
LinkedPolicies(id, policies) ==
    IF policies = <<>> THEN <<>>
    ELSE (IF id \in Range(category_ids(Head(policies)))
          THEN <<[policy_name |-> GetD(Head(policies), "name", <<"U", "n", "n", "a", "m", "e", "d", " ", "P", "o", "l", "i", "c", "y">>),
                  action |-> GetD(Head(policies), "action", <<"N", "o", " ", "A", "c", "t", "i", "o", "n", " ", "D", "e", "f", "i", "n", "e", "d">>)]>>
          ELSE <<>>)
         \o LinkedPolicies(id, Tail(policies))

\* the two list comprehensions of lines 106-114, the used categories with
\* their linked policies filled in
RECURSIVE UsedCategories(_, _)
UsedCategories(cats, policies) ==
    IF cats = <<>> THEN <<>>
    ELSE (IF Head(cats).id \in used_category_ids(policies)
          THEN <<[id |-> Head(cats).id, name |-> Head(cats).name,
                  linked_policies |-> LinkedPolicies(Head(cats).id, policies)]>>
          ELSE <<>>)
         \o UsedCategories(Tail(cats), policies)

RECURSIVE UnusedCategories(_, _)
UnusedCategories(cats, policies) ==
    IF cats = <<>> THEN <<>>
    ELSE (IF Head(cats).id \notin used_category_ids(policies)
          THEN <<[id |-> Head(cats).id, name |-> Head(cats).name]>>
          ELSE <<>>)
         \o UnusedCategories(Tail(cats), policies)

analyze_category_usage(cats, policies) ==
    [used_categories |-> UsedCategories(cats, policies),
     unused_categories |-> UnusedCategories(cats, policies)]

\* Step 3 and the two displays
Analyze ==
    /\ prog = "url_manager"
    /\ pc = "analyze"
    /\ analysis' = analyze_category_usage(custom_categories, filtering_policies)
    /\ pc' = "ask_update"
    /\ UNCHANGED <<zpa, prog, log, category, existing_urls, urls_file, ticket_id,
                   urls_to_add, custom_categories, filtering_policies, export>>

\* the optional step: anything but "yes" ends the run
AskUpdate ==
    /\ prog = "url_manager"
    /\ pc = "ask_update"
    /\ \E update_choice \in {"yes", "no"} :
        pc' = IF update_choice = "yes" THEN "bulk_get" ELSE "done"
    /\ UNCHANGED <<zpa, prog, log, category, existing_urls, urls_file, ticket_id,
                   urls_to_add, manager, export>>

\* bulk_update_urls: the category is fetched
BulkGetCategory ==
    /\ prog = "url_manager"
    /\ pc = "bulk_get"
    /\ \E err \in BOOLEAN, urls \in CategoryUrls :
        /\ log' = Append(log, Call("url_categories.get_category", 0, err, <<>>,
                                   IF err THEN <<>> ELSE Category(urls)))
        /\ IF err
           THEN pc' = "exit" /\ UNCHANGED <<category, existing_urls>>
           ELSE /\ category' = Category(urls)
                /\ existing_urls' = Range(urls)
                /\ pc' = "bulk_update"
    /\ UNCHANGED <<zpa, prog, urls_file, ticket_id, urls_to_add, manager, export>>

\* bulk_update_urls: the file is read and the merged URLs are sent, whether
\* or not the file brings a new one
BulkUpdate ==
    /\ prog = "url_manager"
    /\ pc = "bulk_update"
    /\ \/ pc' = "exit" /\ UNCHANGED <<urls_file, urls_to_add, log>>   \* FileNotFoundError
       \/ \E file \in RowsUpTo(TextLines, 1), err \in BOOLEAN :
           /\ urls_file' = file
           /\ urls_to_add' = LinesOf(file)
           /\ log' = Append(log, Call("url_categories.update_url_category", 0, err,
                                      [category_id |-> category.id,
                                       configured_name |-> category.configured_name,
                                       super_category |-> category.super_category,
                                       urls |-> existing_urls \cup LinesOf(file)],
                                      <<>>))
           /\ pc' = IF err THEN "exit" ELSE "bulk_activate"
    /\ UNCHANGED <<zpa, prog, category, existing_urls, ticket_id, manager, export>>

BulkActivate ==
    /\ prog = "url_manager"
    /\ pc = "bulk_activate"
    /\ \E err \in BOOLEAN :
        /\ log' = Append(log, Call("activate.activate", 0, err, <<>>, <<>>))
        /\ pc' = IF err THEN "exit" ELSE "done"
    /\ UNCHANGED <<zpa, prog, category, existing_urls, urls_file, ticket_id,
                   urls_to_add, manager, export>>

InitManager ==
    /\ prog = "url_manager"
    /\ pc = "fetch_categories"
    /\ log = <<>>
    /\ ZpaIdle
    /\ ToolsIdle

NextManager ==
    \/ FetchCustomCategories
    \/ FetchPolicies
    \/ Analyze
    \/ AskUpdate
    \/ BulkGetCategory
    \/ BulkUpdate
    \/ BulkActivate

SpecManager == InitManager /\ [][NextManager]_vars

(***************************************************************************)
(* src/zpa/export_segments.py: a port range list is written as one CSV     *)
(* cell, which the two import scripts read back                            *)
(***************************************************************************)
\* the most port ranges of an exported segment
MaxRanges == 3

\* the port ranges a listed segment may hold: single values, a true range,
\* and single values written with a blank or with nothing at all
RangePool ==
    {[from |-> S_80, to |-> S_80],
     [from |-> S_443, to |-> S_443],
     [from |-> <<"8", "0", "0", "0">>, to |-> <<"8", "1", "0", "0">>],
     [from |-> <<" ">> \o S_22, to |-> <<" ">> \o S_22],
     [from |-> <<>>, to |-> <<>>]}

\* sep.join(parts)
RECURSIVE join(_, _)
join(sep, parts) ==
    IF parts = <<>> THEN <<>>
    ELSE IF Len(parts) = 1 THEN Head(parts)
    ELSE Head(parts) \o sep \o join(sep, Tail(parts))

\* p_from if p_from == p_to else f"{p_from}-{p_to}"
RECURSIVE formatted_ports(_)
formatted_ports(ranges) ==
    IF ranges = <<>> THEN <<>>
    ELSE <<IF Head(ranges).from = Head(ranges).to THEN Head(ranges).from
           ELSE Head(ranges).from \o <<"-">> \o Head(ranges).to>>
         \o formatted_ports(Tail(ranges))

\* mutant: the tokens are joined with a semicolon
format_ports_to_string_Semicolon(ranges) ==
    IF ranges = <<>> THEN <<>> ELSE join(<<";">>, formatted_ports(ranges))

format_ports_to_string(ranges) ==
    IF ranges = <<>> THEN <<>> ELSE join(<<",">>, formatted_ports(ranges))

\* export_segments.main writes the cell of a segment's port ranges
ExportPorts ==
    /\ prog = "export"
    /\ pc = "export"
    /\ \E ranges \in RowsUpTo(RangePool, MaxRanges) :
        /\ port_ranges' = ranges
        /\ port_string' = format_ports_to_string(ranges)
    /\ pc' = "reimport"
    /\ UNCHANGED <<zpa, prog, log, category, existing_urls, urls_file, ticket_id,
                   urls_to_add, manager, reimported>>

\* the cell is read back by import_segments (parse_ports, then the ranges of
\* the payload) or by segment_maker (parse_ports)
ReimportPorts ==
    /\ prog = "export"
    /\ pc = "reimport"
    /\ \E by \in {"import", "maker"} :
        /\ reimported' = IF by = "import" THEN PortRanges(parse_ports(port_string))
                         ELSE parse_port_ranges(port_string)
        /\ log' = Append(log, Printed("parse_ports", 0, by))
    /\ pc' = "done"
    /\ UNCHANGED <<zpa, prog, category, existing_urls, urls_file, ticket_id,
                   urls_to_add, manager, port_ranges, port_string>>

InitExport ==
    /\ prog = "export"
    /\ pc = "export"
    /\ log = <<>>
    /\ ZpaIdle
    /\ ToolsIdle

NextExport == ExportPorts \/ ReimportPorts

SpecExport == InitExport /\ [][NextExport]_vars

(***************************************************************************)
(* Properties                                                              *)
(***************************************************************************)
IsParentCall(e) == e.op = "application_segment.add_segment"

IsBACall(e) == e.op = "app_segments_ba.add_segment"

IsPRACall(e) == e.op = "app_segments_pra.add_segment"

IsChildCall(e) == IsBACall(e) \/ IsPRACall(e)

IsCreateCall(e) == IsParentCall(e) \/ IsChildCall(e)

\* the log entries about the row of CSV line L
ParentCallFor(L) == \E n \in DOMAIN log : IsParentCall(log[n]) /\ log[n].line = L

CreateCallFor(L) == \E n \in DOMAIN log : IsCreateCall(log[n]) /\ log[n].line = L

SkipPrintFor(L) ==
    \E n \in DOMAIN log : log[n].op = "print.skip_existing" /\ log[n].line = L

RejectPrintFor(L) ==
    \E n \in DOMAIN log :
        /\ log[n].op \in {"print.row_rejected", "print.skip_server_groups",
                          "print.skip_segment_group"}
        /\ log[n].line = L

ParentSucceeded(L) ==
    \E n \in DOMAIN log : IsParentCall(log[n]) /\ log[n].line = L /\ ~log[n].err

FailedCallFor(L) ==
    \E n \in DOMAIN log : IsCreateCall(log[n]) /\ log[n].line = L /\ log[n].err

\* import: the parsed row's name is in the set fetched before the loop
NamedExisting(k) == rows[k].name \in existing_segment_names

\* import: every group name of the parsed row is a key of its map
GroupsResolve(r) ==
    /\ \A nm \in Range(r.server_group_names) : DictHas(server_groups, nm)
    /\ DictHas(segment_groups, r.segment_group_name)

\* C1 as stated: in name-keyed mode, a row whose name is in the pre-fetched
\* set gets no create call and a skip record when force is false, and gets
\* its parent create call when force is true.
C1_Original ==
    (prog = "import" /\ pc = "done") =>
        \A k \in DOMAIN rows :
            NamedExisting(k) =>
                IF force
                THEN ParentCallFor(rowLine[k])
                ELSE ~CreateCallFor(rowLine[k]) /\ SkipPrintFor(rowLine[k])

\* C1 (amended): in name-keyed mode, a row whose name is in the pre-fetched
\* set gets, with force false, no create call at any time and a skip record;
\* with force true it is never skipped as existing and gets its parent
\* create call whenever its server-group and segment-group names resolve.
C1_Idempotence ==
    prog = "import" =>
        /\ ~force =>
               \A n \in DOMAIN log :
                   IsCreateCall(log[n]) =>
                       \A k \in DOMAIN rows :
                           rowLine[k] = log[n].line => ~NamedExisting(k)
        /\ pc = "done" =>
               \A k \in DOMAIN rows :
                   NamedExisting(k) =>
                       IF force
                       THEN /\ ~SkipPrintFor(rowLine[k])
                            /\ GroupsResolve(rows[k]) => ParentCallFor(rowLine[k])
                       ELSE ~CreateCallFor(rowLine[k]) /\ SkipPrintFor(rowLine[k])

\* a finished import run without force that skipped a row named like an
\* existing segment
C1_Witness ==
    /\ prog = "import"
    /\ pc = "done"
    /\ ~force
    /\ \E k \in DOMAIN rows :
           /\ NamedExisting(k)
           /\ GroupsResolve(rows[k])
           /\ SkipPrintFor(rowLine[k])

\* C2: every child create call (browser access or PRA) comes after a parent
\* create call of the same row that returned without error, and carries the
\* identifier that call returned as its parent id.
C2_ParentBeforeChild ==
    \A n \in DOMAIN log :
        IsChildCall(log[n]) =>
            \E m \in 1..(n - 1) :
                /\ IsParentCall(log[m])
                /\ log[m].line = log[n].line
                /\ ~log[m].err
                /\ log[m].ret = log[n].args.segment_id

\* children of two rows have been created, each under its own parent
C2_Witness ==
    \E n, m \in DOMAIN log :
        /\ IsChildCall(log[n])
        /\ IsChildCall(log[m])
        /\ log[n].line /= log[m].line
        /\ log[n].args.segment_id /= log[m].args.segment_id

\* the row loop is about to take its first row
LoopStarted == pc = "loop" /\ i = 1 /\ visited = <<>>

\* the run has returned from the loop, having taken every parsed row once,
\* in input order
AllVisited == pc = "done" /\ visited = [k \in 1..Len(rows) |-> k]

\* C3: once the row loop starts (the reference maps are non-empty then), the
\* run always reaches its end having visited every parsed row exactly once,
\* in input order, whatever skips, validation failures and create errors
\* occur on the way.
C3_BatchCompletes == LoopStarted ~> AllVisited

\* a finished three-row run in which one row was skipped as existing, one
\* failed validation and one had a create call fail
C3_Witness ==
    /\ AllVisited
    /\ Len(rows) = 3
    /\ \E L \in 1..3 : SkipPrintFor(L)
    /\ \E L \in 1..3 : RejectPrintFor(L)
    /\ \E L \in 1..3 : FailedCallFor(L)

\* the three-row batch of C4: line 2 was rejected by validation; lines 1 and
\* 3 were neither rejected nor skipped as existing, and no create call of
\* theirs failed
C4_Scenario ==
    /\ pc = "done"
    /\ Len(csv) = 3
    /\ RejectPrintFor(2)
    /\ \A L \in {1, 3} : ~RejectPrintFor(L) /\ ~SkipPrintFor(L) /\ ~FailedCallFor(L)

\* the parent create call of line 3 comes after the rejection of line 2
Row3AfterRow2 ==
    \E n, m \in DOMAIN log :
        /\ log[n].op \in {"print.row_rejected", "print.skip_server_groups",
                          "print.skip_segment_group"}
        /\ log[n].line = 2
        /\ IsParentCall(log[m])
        /\ log[m].line = 3
        /\ n < m

CellText(r, column) ==
    IF column \in DOMAIN r /\ r[column] /= NoneVal THEN r[column] ELSE <<>>

\* the server-group names, the segment-group name and the domains of a row
NamedServerGroups(r) == MapStripNonEmpty(split(CellText(r, "SERVER_GROUP_IDS"), ","))

NamedSegmentGroup(r) == strip(CellText(r, "SEGMENT_GROUP_ID"))

NamedDomains(r) == MapStripNonEmpty(split(CellText(r, "DOMAINS"), ","))

\* the row names a server group or a segment group its map does not hold
Unresolved(r) ==
    \/ \E nm \in Range(NamedServerGroups(r)) : ~DictHas(server_groups, nm)
    \/ ~DictHas(segment_groups, NamedSegmentGroup(r))

\* C5: every parent create call carries, as segment_group_id, the
\* segment-group map's value for the row's segment-group name and, as
\* server_group_ids, server-group map values of the row's server-group
\* names; a row naming a group that is not a key of its map never becomes a
\* validated row and never reaches a create call.
C5_ReferencesResolve ==
    /\ \A n \in DOMAIN log :
           IsCreateCall(log[n]) => ~Unresolved(csv[log[n].line])
    /\ \A n \in DOMAIN log :
           IsParentCall(log[n]) =>
               LET r == csv[log[n].line]
                   a == log[n].args
               IN  /\ a.segment_group_id = DictGet(segment_groups, NamedSegmentGroup(r))
                   /\ \A j \in DOMAIN a.server_group_ids :
                          \E nm \in Range(NamedServerGroups(r)) :
                              a.server_group_ids[j] = DictGet(server_groups, nm)
    /\ prog = "maker" => \A k \in DOMAIN rows : ~Unresolved(csv[rowLine[k]])

\* a parent create call made for a row whose segment-group cell is padded
\* and whose server-group cell names several groups
C5_Witness ==
    \E n \in DOMAIN log :
        /\ IsParentCall(log[n])
        /\ csv[log[n].line]["SEGMENT_GROUP_ID"] = <<" ">> \o S_grp1
        /\ Len(log[n].args.server_group_ids) = 3
        /\ log[n].args.segment_group_id = <<"2", "0", "1">>

\* NAME, DOMAINS or SERVER_GROUP_IDS is absent, empty, or empty once trimmed
MissingMandatory(r) ==
    \/ strip(CellText(r, "NAME")) = <<>>
    \/ NamedDomains(r) = <<>>
    \/ NamedServerGroups(r) = <<>>

\* C6: a row in which NAME, DOMAINS or SERVER_GROUP_IDS is absent, empty or
\* empty after trimming is never kept by the parser and never gets a create
\* call.
C6_MandatoryFields ==
    /\ \A k \in DOMAIN rows : ~MissingMandatory(csv[rowLine[k]])
    /\ \A n \in DOMAIN log :
           IsCreateCall(log[n]) => ~MissingMandatory(csv[log[n].line])

\* the identifiers of the row's server-group names, name by name
IdsInOrder(r) ==
    [j \in 1..Len(NamedServerGroups(r)) |->
        DictGet(server_groups, NamedServerGroups(r)[j])]

\* C7: for a row whose server-group names and segment-group name are all
\* keys of their maps, the server-group id sequence built for it has the
\* length of the name list and holds, at each position, the map's value for
\* the name at that position (repeated names repeated).
C7_OrderPreserved ==
    /\ \A n \in DOMAIN log :
           (IsParentCall(log[n]) /\ ~Unresolved(csv[log[n].line])) =>
               log[n].args.server_group_ids = IdsInOrder(csv[log[n].line])
    /\ prog = "maker" =>
           \A k \in DOMAIN rows :
               ~Unresolved(csv[rowLine[k]]) =>
                   rows[k].server_group_ids = IdsInOrder(csv[rowLine[k]])

\* the row "sg2, sg1,sg1" has been sent with its three identifiers
C7_Witness ==
    \E n \in DOMAIN log :
        /\ IsParentCall(log[n])
        /\ log[n].args.server_group_ids =
               <<<<"1", "0", "2">>, <<"1", "0", "1">>, <<"1", "0", "1">>>>

\* the create calls of the run, in order
CreateCalls == SelectSeq(log, IsCreateCall)

\* the end-to-end scenario: the import script has run on the one row web1
C8_Setup ==
    /\ prog = "import"
    /\ pc = "done"
    /\ csv = <<RowWeb1>>
    /\ DictGet(server_groups, S_sg1) = <<"1", "0", "1">>
    /\ DictGet(segment_groups, S_grp1) = <<"2", "0", "1">>
    /\ S_web1 \notin existing_segment_names

C8_Parent(e) ==
    /\ IsParentCall(e)
    /\ e.args.domain_names = <<S_host>>
    /\ e.args.tcp_port_range = <<[from |-> <<"4", "4", "3">>, to |-> <<"4", "4", "3">>]>>
    /\ e.args.server_group_ids = <<<<"1", "0", "1">>>>
    /\ e.args.segment_group_id = <<"2", "0", "1">>

C8_Child(e) ==
    /\ IsChildCall(e)
    /\ e.args.name = <<"a", ".", "e", "x", "a", "m", "p", "l", "e", ".", "c", "o", "m",
                       ":", "4", "4", "3">>
    /\ e.args.application_protocol = <<"H", "T", "T", "P", "S">>

\* C8 as stated: the scenario's run issues exactly one parent create call
\* with the stated arguments, followed by exactly one child create call named
\* "a.example.com:443" with protocol HTTPS, and no other create call.
C8_Original ==
    C8_Setup =>
        /\ Len(CreateCalls) = 2
        /\ C8_Parent(CreateCalls[1])
        /\ C8_Child(CreateCalls[2])

\* C8 (amended): the scenario's run issues exactly one parent create call
\* with the stated arguments; when that call returns without error it is
\* followed by exactly one child create call named "a.example.com:443" with
\* protocol HTTPS, and when it returns an error no child create call is
\* made; there is no other create call.
C8_EndToEnd ==
    C8_Setup =>
        /\ Len(CreateCalls) >= 1
        /\ C8_Parent(CreateCalls[1])
        /\ IF CreateCalls[1].err
           THEN Len(CreateCalls) = 1
           ELSE Len(CreateCalls) = 2 /\ C8_Child(CreateCalls[2])

\* the scenario has run with both create calls made
C8_Witness == C8_Setup /\ Len(CreateCalls) = 2 /\ configured_apps = 1

\* the import loop has left the browser-access phase of parsed row k
BADone(k) == prog = "import" /\ (pc = "done" \/ i > k \/ (i = k /\ pc = "pra"))

\* the browser-access calls made for CSV line L, in order
BACallsFor(L) == SelectSeq(log, LAMBDA e : IsBACall(e) /\ e.line = L)

\* the q-th (domain, tcp_port) pair of parsed row k, domains outermost
PairDomain(k, q) == rows[k].domain_names[((q - 1) \div Len(rows[k].tcp_ports)) + 1]

PairPort(k, q) == rows[k].tcp_ports[((q - 1) % Len(rows[k].tcp_ports)) + 1]

\* C9: when a row requests browser access and its parent create succeeded,
\* exactly one child create is submitted for every (domain, tcp_port) pair
\* of the row, named "<domain>:<port>", enabled, with protocol HTTPS if and
\* only if the port token is "443" or "8443" and HTTP for every other token.
C9_BrowserAccessChildren ==
    \A k \in DOMAIN rows :
        (BADone(k) /\ rows[k].is_browser_access /\ ParentSucceeded(rowLine[k])) =>
            LET calls == BACallsFor(rowLine[k])
            IN  /\ Len(calls) = Len(rows[k].domain_names) * Len(rows[k].tcp_ports)
                /\ \A q \in DOMAIN calls :
                       LET dm == PairDomain(k, q)
                           pt == PairPort(k, q)
                           a  == calls[q].args
                       IN  /\ a.domain = dm
                           /\ a.application_port = pt
                           /\ a.name = dm \o <<":">> \o pt
                           /\ a.enabled = TRUE
                           /\ a.application_protocol \in
                                  {<<"H", "T", "T", "P", "S">>, <<"H", "T", "T", "P">>}
                           /\ a.application_protocol = <<"H", "T", "T", "P", "S">>
                                  <=> pt \in {<<"4", "4", "3">>, <<"8", "4", "4", "3">>}

\* a row of two domains and two ports has had its four browser-access
\* children submitted, HTTP and HTTPS among them
C9_Witness ==
    \E k \in DOMAIN rows :
        /\ BADone(k)
        /\ rows[k].is_browser_access
        /\ ParentSucceeded(rowLine[k])
        /\ Len(BACallsFor(rowLine[k])) = 4
        /\ \E q \in 1..4 :
               BACallsFor(rowLine[k])[q].args.application_protocol = <<"H", "T", "T", "P">>
        /\ \E q \in 1..4 :
               BACallsFor(rowLine[k])[q].args.application_protocol =
                   <<"H", "T", "T", "P", "S">>

\* the step handles one (domain, tcp_port) pair of a PRA row
PRAStep ==
    /\ prog = "import"
    /\ pc = "pra"
    /\ row.is_pra
    /\ HasPair
    /\ ParentSucceeded(line)

\* the step appends one PRA child create for the current pair
PRACallAppended(protocol) ==
    /\ Len(log') = Len(log) + 1
    /\ SubSeq(log', 1, Len(log)) = log
    /\ LET e == log'[Len(log')]
       IN  /\ IsPRACall(e)
           /\ e.line = line
           /\ e.args.domain = domain
           /\ e.args.application_port = port
           /\ e.args.application_protocol = protocol
           /\ e.args.name = protocol \o <<"-">> \o domain \o <<":">> \o port

\* C10: when a row requests PRA and its parent create succeeded, a (domain,
\* tcp_port) pair yields a child create with protocol SSH and name
\* "SSH-<domain>:<port>" iff the port token is "22", with protocol RDP and
\* name "RDP-<domain>:<port>" iff it is "3389", and for any other port no
\* call is made, nothing is recorded and no counter changes; no PRA child
\* create is submitted in any other step.
C10_PRAChildren ==
    [][ /\ PRAStep =>
            IF port = <<"2", "2">> THEN PRACallAppended(<<"S", "S", "H">>)
            ELSE IF port = <<"3", "3", "8", "9">> THEN PRACallAppended(<<"R", "D", "P">>)
            ELSE /\ log' = log
                 /\ created_count' = created_count
                 /\ configured_apps' = configured_apps
        /\ (Len(log') > Len(log) /\ IsPRACall(log'[Len(log')])) => PRAStep
      ]_vars

\* a run that submitted an SSH and an RDP child and finished a PRA row of
\* which one port is neither "22" nor "3389"
C10_Witness ==
    /\ pc = "done"
    /\ \E n \in DOMAIN log :
           IsPRACall(log[n]) /\ log[n].args.application_protocol = <<"S", "S", "H">>
    /\ \E n \in DOMAIN log :
           IsPRACall(log[n]) /\ log[n].args.application_protocol = <<"R", "D", "P">>
    /\ \E k \in DOMAIN rows :
           /\ rows[k].is_pra
           /\ ParentSucceeded(rowLine[k])
           /\ \E pt \in Range(rows[k].tcp_ports) :
                  pt \notin {<<"2", "2">>, <<"3", "3", "8", "9">>}

\* the tokens of a comma-separated string, found by position: the pieces
\* between consecutive commas (or an end of the string), each cut down to
\* what lies between its first and its last character that is not a blank,
\* the empty ones left out
Cuts(s) == {k \in 1..Len(s) : s[k] = ","} \cup {0, Len(s) + 1}

NextCut(s, a) == CHOOSE b \in Cuts(s) : b > a /\ \A c \in Cuts(s) : c > a => b <= c

Inked(s, a) == {k \in (a + 1)..(NextCut(s, a) - 1) : s[k] /= " "}

TokenFrom(s, a) ==
    SubSeq(s, CHOOSE k \in Inked(s, a) : \A j \in Inked(s, a) : k <= j,
              CHOOSE k \in Inked(s, a) : \A j \in Inked(s, a) : k >= j)

TokenStarts(s) == {a \in Cuts(s) \ {Len(s) + 1} : Inked(s, a) /= {}}

ExpectedTokens(s) ==
    [j \in 1..Cardinality(TokenStarts(s)) |->
        TokenFrom(s, CHOOSE a \in TokenStarts(s) :
                         Cardinality({b \in TokenStarts(s) : b < a}) = j - 1)]

ExpectedRanges(s) ==
    [j \in 1..Len(ExpectedTokens(s)) |->
        [from |-> ExpectedTokens(s)[j], to |-> ExpectedTokens(s)[j]]]

\* the three ranges of "80,443,8443"
ThreeRanges ==
    <<[from |-> <<"8", "0">>, to |-> <<"8", "0">>],
      [from |-> <<"4", "4", "3">>, to |-> <<"4", "4", "3">>],
      [from |-> <<"8", "4", "4", "3">>, to |-> <<"8", "4", "4", "3">>]>>

\* the port ranges of a parsed row, as its script will send them
RangesOf(r, kind) ==
    IF prog = "maker"
    THEN (IF kind = "tcp" THEN r.tcp_port_range ELSE r.udp_port_range)
    ELSE [j \in 1..Len(IF kind = "tcp" THEN r.tcp_ports ELSE r.udp_ports) |->
             [from |-> (IF kind = "tcp" THEN r.tcp_ports ELSE r.udp_ports)[j],
              to |-> (IF kind = "tcp" THEN r.tcp_ports ELSE r.udp_ports)[j]]]

\* C11: a comma-separated port string parses to its trimmed non-empty
\* tokens in input order, each token t becoming the range {from: t, to: t},
\* in the parsed row and in the parent create call; "80,443,8443" gives the
\* three ranges {80,80}, {443,443}, {8443,8443} in that order, and an empty
\* or absent string, or one of commas and blanks only, gives no range.
C11_PortParsing ==
    /\ \A k \in DOMAIN rows :
           LET tcp == CellText(csv[rowLine[k]], "TCP_PORTS")
               udp == CellText(csv[rowLine[k]], "UDP_PORTS")
           IN  /\ RangesOf(rows[k], "tcp") = ExpectedRanges(tcp)
               /\ RangesOf(rows[k], "udp") = ExpectedRanges(udp)
               /\ prog = "import" => rows[k].tcp_ports = ExpectedTokens(tcp)
               /\ tcp = <<"8", "0", ",", "4", "4", "3", ",", "8", "4", "4", "3">>
                      => RangesOf(rows[k], "tcp") = ThreeRanges
               /\ (\A j \in DOMAIN tcp : tcp[j] \in {",", " "})
                      => RangesOf(rows[k], "tcp") = <<>>
    /\ \A n \in DOMAIN log :
           IsParentCall(log[n]) =>
               /\ log[n].args.tcp_port_range =
                      ExpectedRanges(CellText(csv[log[n].line], "TCP_PORTS"))
               /\ log[n].args.udp_port_range =
                      ExpectedRanges(CellText(csv[log[n].line], "UDP_PORTS"))

\* the row whose TCP_PORTS is "80,443,8443" has been sent with three ranges
C11_Witness ==
    \E n \in DOMAIN log :
        /\ IsParentCall(log[n])
        /\ CellText(csv[log[n].line], "TCP_PORTS") =
               <<"8", "0", ",", "4", "4", "3", ",", "8", "4", "4", "3">>
        /\ log[n].args.tcp_port_range = ThreeRanges

\* the text is "1", "true", "yes" or "y" in any mix of cases
IsTrueText(v) ==
    \/ v = <<"1">>
    \/ Len(v) = 4 /\ v[1] \in {"t", "T"} /\ v[2] \in {"r", "R"}
                  /\ v[3] \in {"u", "U"} /\ v[4] \in {"e", "E"}
    \/ Len(v) = 3 /\ v[1] \in {"y", "Y"} /\ v[2] \in {"e", "E"} /\ v[3] \in {"s", "S"}
    \/ Len(v) = 1 /\ v[1] \in {"y", "Y"}

\* what a boolean column of a CSV row stands for, given its default
ExpectedFlag(r, column, default) ==
    IF column \in DOMAIN r THEN IsTrueText(r[column]) ELSE default

\* C12: a boolean column coerces to true iff its value is one of "1",
\* "true", "yes", "y" in any case, and to false for anything else; when the
\* column is absent, enabled is true and double_encrypt, is_browser_access,
\* is_pra and is_inspection are false.
C12_BooleanCoercion ==
    /\ \A k \in DOMAIN rows :
           LET r == csv[rowLine[k]]
           IN  /\ rows[k].enabled = ExpectedFlag(r, "ENABLED", TRUE)
               /\ rows[k].double_encrypt = ExpectedFlag(r, "DOUBLE_ENCRYPT", FALSE)
               /\ prog = "import" =>
                      /\ rows[k].is_browser_access =
                             ExpectedFlag(r, "IS_BROWSER_ACCESS", FALSE)
                      /\ rows[k].is_pra = ExpectedFlag(r, "IS_PRA", FALSE)
                      /\ rows[k].is_inspection = ExpectedFlag(r, "IS_INSPECTION", FALSE)
    /\ \A n \in DOMAIN log :
           IsParentCall(log[n]) =>
               LET r == csv[log[n].line]
               IN  /\ log[n].args.enabled = ExpectedFlag(r, "ENABLED", TRUE)
                   /\ log[n].args.double_encrypt = ExpectedFlag(r, "DOUBLE_ENCRYPT", FALSE)
                   /\ prog = "import" =>
                          log[n].args.app_protection_enabled =
                              ExpectedFlag(r, "IS_INSPECTION", FALSE)

\* a row whose IS_PRA is "YeS" and which has no other boolean column has
\* been parsed: is_pra true, enabled true by default, the others false
C12_Witness ==
    /\ prog = "import"
    /\ \E k \in DOMAIN rows :
           /\ BoolColumns \cap DOMAIN csv[rowLine[k]] = {"IS_PRA"}
           /\ csv[rowLine[k]]["IS_PRA"] = <<"Y", "e", "S">>
           /\ rows[k].is_pra
           /\ rows[k].enabled
           /\ ~rows[k].double_encrypt
           /\ ~rows[k].is_browser_access
           /\ ~rows[k].is_inspection

\* what a create call asks for: the operation, the row and the arguments
Shape(e) == [op |-> e.op, line |-> e.line, args |-> e.args]

\* the identifier the tenant returned for the parent of CSV line L
ReturnedFor(L) ==
    log[CHOOSE n \in DOMAIN log : IsParentCall(log[n]) /\ log[n].line = L /\ ~log[n].err].ret

\* the child create of the q-th (domain, tcp_port) pair of the parsed row r
ChildShape(op, L, r, q, protocol, prefix) ==
    LET dm == r.domain_names[((q - 1) \div Len(r.tcp_ports)) + 1]
        pt == r.tcp_ports[((q - 1) % Len(r.tcp_ports)) + 1]
    IN  [op |-> op, line |-> L,
         args |-> [segment_id |-> ReturnedFor(L), name |-> prefix \o dm \o <<":">> \o pt,
                   domain |-> dm, application_port |-> pt,
                   application_protocol |-> protocol, enabled |-> TRUE]]

PortOfPair(r, q) == r.tcp_ports[((q - 1) % Len(r.tcp_ports)) + 1]

\* the create calls a forced run makes for CSV line L, told from the file,
\* the two reference maps and the answers of the API alone
RECURSIVE ForcedChildren(_, _, _, _)
ForcedChildren(kind, L, r, q) ==
    IF q > Len(r.domain_names) * Len(r.tcp_ports) THEN <<>>
    ELSE (IF kind = "ba"
          THEN <<ChildShape("app_segments_ba.add_segment", L, r, q,
                            IF PortOfPair(r, q) \in {<<"4", "4", "3">>, <<"8", "4", "4", "3">>}
                            THEN <<"H", "T", "T", "P", "S">> ELSE <<"H", "T", "T", "P">>,
                            <<>>)>>
          ELSE IF PortOfPair(r, q) = <<"2", "2">>
          THEN <<ChildShape("app_segments_pra.add_segment", L, r, q,
                            <<"S", "S", "H">>, <<"S", "S", "H", "-">>)>>
          ELSE IF PortOfPair(r, q) = <<"3", "3", "8", "9">>
          THEN <<ChildShape("app_segments_pra.add_segment", L, r, q,
                            <<"R", "D", "P">>, <<"R", "D", "P", "-">>)>>
          ELSE <<>>)
         \o ForcedChildren(kind, L, r, q + 1)

ForcedCallsFor(L) ==
    LET r == ParseRow(csv[L]).val
    IN  IF prog = "maker"
        THEN <<[op |-> "application_segment.add_segment", line |-> L, args |-> r]>>
        ELSE IF ~GroupsResolve(r) THEN <<>>
        ELSE <<[op |-> "application_segment.add_segment", line |-> L,
                args |-> create_payload(r)]>>
             \o (IF ~ParentSucceeded(L) THEN <<>>
                 ELSE (IF r.is_browser_access THEN ForcedChildren("ba", L, r, 1) ELSE <<>>)
                      \o (IF r.is_pra THEN ForcedChildren("pra", L, r, 1) ELSE <<>>))

RECURSIVE ForcedCalls(_)
ForcedCalls(L) ==
    IF L = 0 THEN <<>>
    ELSE ForcedCalls(L - 1)
         \o (IF ParseRow(csv[L]).tag = "ok" THEN ForcedCallsFor(L) ELSE <<>>)

\* C13: when the force flag is set no row is skipped as already existing,
\* the segment listing is not invoked for any row, and the sequence of
\* create calls of the finished run is the one determined by the CSV file,
\* the reference maps and the answers of the API to those calls, whatever
\* segments the tenant holds.
C13_ForceBypass ==
    force =>
        /\ \A n \in DOMAIN log :
               /\ log[n].op /= "print.skip_existing"
               /\ log[n].op = "application_segment.list_segments" => log[n].line = 0
        /\ prog = "maker" =>
               \A n \in DOMAIN log : log[n].op /= "application_segment.list_segments"
        /\ pc = "done" =>
               [n \in DOMAIN CreateCalls |-> Shape(CreateCalls[n])] = ForcedCalls(Len(csv))

\* a forced run has ended, in a tenant that holds a segment named like a row
\* of the file, with that row's parent and a child of it created
C13_Witness ==
    /\ force
    /\ pc = "done"
    /\ prog = "import"
    /\ \E k \in DOMAIN rows :
           /\ NamedExisting(k)
           /\ ParentSucceeded(rowLine[k])
           /\ \E n \in DOMAIN log : IsChildCall(log[n]) /\ log[n].line = rowLine[k]

\* the listing of segments made for CSV line L (0: before the loop) failed
ListingFailed(L) ==
    \E n \in DOMAIN log :
        /\ log[n].op = "application_segment.list_segments"
        /\ log[n].line = L
        /\ log[n].err

\* the loop has left the parsed row k
RowDone(k) == pc = "done" \/ (pc \in {"loop", "validate", "add_segment", "ba", "pra",
                                       "segment_exists"} /\ i > k)

\* C14: when the listing of segments returns an error the existence check
\* answers "not found": in name-keyed mode the set of existing names is
\* empty, in attribute-keyed mode segment_exists is false, so that no row is
\* skipped as existing on that answer and every valid row goes on to its
\* parent create call.
C14_FailOpen ==
    /\ (prog = "import" /\ ListingFailed(0)) =>
           /\ existing_segment_names = {}
           /\ \A k \in DOMAIN rows :
                  /\ ~SkipPrintFor(rowLine[k])
                  /\ (RowDone(k) /\ GroupsResolve(rows[k])) => ParentCallFor(rowLine[k])
    /\ prog = "maker" =>
           \A k \in DOMAIN rows :
               ListingFailed(rowLine[k]) =>
                   /\ ~SkipPrintFor(rowLine[k])
                   /\ RowDone(k) => ParentCallFor(rowLine[k])

\* attribute-keyed mode, no force: the listing failed for a row that the
\* tenant's segment seg-A matches, and the row's create call was made
C14_Witness ==
    /\ prog = "maker"
    /\ ~force
    /\ \E k \in DOMAIN rows :
           /\ ListingFailed(rowLine[k])
           /\ tenant /= <<>>
           /\ Matches(<<tenant[1]>>, rows[k].domain_names[1], rows[k].tcp_port_range)
           /\ tenant[1].id = <<"a", "p", "p", "0">>
           /\ ParentCallFor(rowLine[k])

\* C15: if the server-group map or the segment-group map is empty (its
\* listing failed or returned nothing), the run ends before the CSV file is
\* read: no row is parsed or processed, the segments are not listed, and no
\* parent or child create call is ever issued.
C15_FatalPrecondition ==
    (server_groups = <<>> \/ segment_groups = <<>>) =>
        /\ pc \in {"list_server_groups", "list_segment_groups", "check_groups", "exit"}
        /\ csv = <<>>
        /\ rows = <<>>
        /\ visited = <<>>
        /\ \A n \in DOMAIN log :
               log[n].op \in {"server_groups.list_groups", "segment_groups.list_groups"}

\* the run has ended because the segment groups, listed without error, were
\* none, the server groups being there
C15_Witness ==
    /\ pc = "exit"
    /\ server_groups /= <<>>
    /\ segment_groups = <<>>
    /\ \E n \in DOMAIN log : log[n].op = "segment_groups.list_groups" /\ ~log[n].err

\* the parent create call of the parsed row k returned an error
ParentFailed(k) ==
    \E n \in DOMAIN log :
        IsParentCall(log[n]) /\ log[n].line = rowLine[k] /\ log[n].err

\* the calls of the log that returned without error
Succeeded(Test(_)) == Cardinality({n \in DOMAIN log : Test(log[n]) /\ ~log[n].err})

\* C16: when the parent create call of a row returns an error the row ends
\* there: no browser-access or PRA child create is attempted for it, the two
\* counts stay what the successful calls of the other rows make them, and
\* the next row is taken and processed as any other.
C16_ParentFailure ==
    prog = "import" =>
        /\ created_count = Succeeded(IsParentCall)
        /\ configured_apps = Succeeded(IsChildCall)
        /\ \A k \in DOMAIN rows :
               ParentFailed(k) =>
                   /\ RowDone(k)
                   /\ \A n \in DOMAIN log :
                          IsChildCall(log[n]) => log[n].line /= rowLine[k]
                   /\ (pc = "done" /\ k < Len(rows)) =>
                          /\ Cardinality({v \in DOMAIN visited : visited[v] = k + 1}) = 1
                          /\ (~SkipPrintFor(rowLine[k + 1]) /\ GroupsResolve(rows[k + 1]))
                                 => ParentCallFor(rowLine[k + 1])

\* a run has ended in which the parent of a browser-access row failed and
\* the row after it got its parent and a child
C16_Witness ==
    /\ prog = "import"
    /\ pc = "done"
    /\ \E k \in DOMAIN rows :
           /\ ParentFailed(k)
           /\ rows[k].is_browser_access
           /\ k < Len(rows)
           /\ ParentSucceeded(rowLine[k + 1])
           /\ \E n \in DOMAIN log :
                  IsChildCall(log[n]) /\ log[n].line = rowLine[k + 1] /\ ~log[n].err
           /\ configured_apps > 0

\* the child create calls made for CSV line L, in order
ChildCallsFor(L) == SelectSeq(log, LAMBDA e : IsChildCall(e) /\ e.line = L)

\* the children the parsed row k asks for: one browser-access child per
\* (domain, tcp_port) pair, then one PRA child per pair of port 22 or 3389
ChildrenAsked(k) ==
    (IF rows[k].is_browser_access
     THEN ForcedChildren("ba", rowLine[k], rows[k], 1) ELSE <<>>)
    \o (IF rows[k].is_pra THEN ForcedChildren("pra", rowLine[k], rows[k], 1) ELSE <<>>)

\* C17: when a browser-access or PRA child create call returns an error,
\* every remaining (domain, tcp_port) pair of the row is still attempted,
\* PRA children after a failed browser-access child included; the row's
\* parent stays counted in segments_created and only the failed children are
\* left out of child_apps_configured.
C17_ChildFailureIsolated ==
    prog = "import" =>
        /\ \A k \in DOMAIN rows :
               (ParentSucceeded(rowLine[k]) /\ RowDone(k)) =>
                   [n \in DOMAIN ChildCallsFor(rowLine[k]) |->
                       Shape(ChildCallsFor(rowLine[k])[n])] = ChildrenAsked(k)
        /\ created_count = Cardinality({k \in DOMAIN rows : ParentSucceeded(rowLine[k])})
        /\ configured_apps =
               Cardinality({n \in DOMAIN log : IsChildCall(log[n])})
               - Cardinality({n \in DOMAIN log : IsChildCall(log[n]) /\ log[n].err})
        /\ pc = "done" =>
               /\ result.segments_created = created_count
               /\ result.child_apps_configured = configured_apps

\* a run has ended in which the first browser-access child of a row failed,
\* the later ones and the PRA children of the row were made, and the row's
\* parent is counted
C17_Witness ==
    /\ prog = "import"
    /\ pc = "done"
    /\ \E k \in DOMAIN rows :
           /\ ParentSucceeded(rowLine[k])
           /\ Len(ChildCallsFor(rowLine[k])) = 6
           /\ ChildCallsFor(rowLine[k])[1].err
           /\ IsBACall(ChildCallsFor(rowLine[k])[1])
           /\ ~ChildCallsFor(rowLine[k])[2].err
           /\ IsPRACall(ChildCallsFor(rowLine[k])[6])
           /\ result.segments_created >= 1
           /\ result.child_apps_configured < 6

\* the rejection printed for CSV line L names the server group nm
ServerGroupReported(L, nm) ==
    \E n \in DOMAIN log :
        /\ log[n].line = L
        /\ \/ /\ log[n].op = "print.row_rejected"
              /\ \E e \in Range(log[n].detail) :
                     e.kind = "server_group_invalid" /\ e.name = nm
           \/ /\ log[n].op = "print.skip_server_groups"
              /\ nm \in Range(log[n].detail)

\* the rejection printed for CSV line L reports the row's segment group
SegmentGroupReported(L) ==
    \E n \in DOMAIN log :
        /\ log[n].line = L
        /\ \/ /\ log[n].op = "print.row_rejected"
              /\ \E e \in Range(log[n].detail) : e.kind = "segment_group_invalid"
           \/ log[n].op = "print.skip_segment_group"

\* C18: when a row with its mandatory fields is rejected by validation,
\* every server-group name of the row that does not resolve and its
\* segment-group name, if it does not resolve, are all reported for the row,
\* and the row gets no create call and no partial spec.
C18_ErrorCollection ==
    \A L \in DOMAIN csv :
        (RejectPrintFor(L) /\ ~MissingMandatory(csv[L])) =>
            /\ \A nm \in Range(NamedServerGroups(csv[L])) :
                   ~DictHas(server_groups, nm) => ServerGroupReported(L, nm)
            /\ ~DictHas(segment_groups, NamedSegmentGroup(csv[L]))
                   => SegmentGroupReported(L)
            /\ ~CreateCallFor(L)
            /\ \A k \in DOMAIN rows : prog = "maker" => rowLine[k] /= L

\* the segment holds the domain and has exactly the candidate's TCP ranges:
\* as many, and the same from and to at every position
SameAttributes(segment, dm, ports) ==
    /\ \E j \in DOMAIN segment.domain_names : segment.domain_names[j] = dm
    /\ Len(segment.tcp_port_range) = Len(ports)
    /\ \A j \in DOMAIN ports :
           /\ segment.tcp_port_range[j].from = ports[j].from
           /\ segment.tcp_port_range[j].to = ports[j].to

\* the segment has the candidate's ports, but ordered otherwise or with more
NearMiss(segment, dm, ports) ==
    /\ \E j \in DOMAIN segment.domain_names : segment.domain_names[j] = dm
    /\ Range(ports) \subseteq Range(segment.tcp_port_range)
    /\ segment.tcp_port_range /= ports

\* C19: segment_exists(domain, ports) is true if and only if the listing
\* succeeded and some existing segment has the domain in its domain list and
\* a TCP port range equal to the candidate's as a sequence of {from, to}
\* values; the same ports in another order, or more ports, do not count.
\* Seen at the step of the check: the row is skipped exactly in that case,
\* and goes on to its create call otherwise.
C19_AttributeKeyed ==
    [][ pc = "segment_exists" =>
            LET listing == log'[Len(log) + 1]
                found ==
                    /\ ~listing.err
                    /\ \E n \in DOMAIN tenant :
                           SameAttributes(tenant[n], row.domain_names[1],
                                          row.tcp_port_range)
            IN  /\ listing.op = "application_segment.list_segments"
                /\ IF found
                   THEN /\ Len(log') = Len(log) + 2
                        /\ log'[Len(log) + 2].op = "print.skip_existing"
                        /\ pc' = "loop"
                        /\ i' = i + 1
                   ELSE /\ Len(log') = Len(log) + 1
                        /\ pc' = "add_segment"
                        /\ i' = i
      ]_vars

\* the check passed a row although the tenant holds a segment with the
\* row's first domain and its ports in another order, the listing having
\* succeeded
C19_Witness ==
    /\ prog = "maker"
    /\ ~force
    /\ pc = "add_segment"
    /\ ~ListingFailed(line)
    /\ Len(row.tcp_port_range) = 2
    /\ \E n \in DOMAIN tenant :
           /\ NearMiss(tenant[n], row.domain_names[1], row.tcp_port_range)
           /\ Len(tenant[n].tcp_port_range) = 2

\* the step validates the references of its row: segment_maker does it while
\* parsing the row, import_segments in the loop
IsValidation(e) ==
    e.step = "validate" \/ (prog = "maker" /\ e.step = "parse_csv_row")

\* the place of a step in the order validate, check-exists, create parent,
\* create children
StepRank(e) ==
    IF e.step = "parse_csv_row" \/ e.step = "validate" THEN 1
    ELSE IF e.step = "check_exists" THEN 2
    ELSE IF e.step = "add_segment" THEN 3
    ELSE 4

LoopRank(e) ==
    IF e.step = "check_exists" THEN 1
    ELSE IF e.step = "validate" THEN 2
    ELSE IF e.step = "add_segment" THEN 3
    ELSE 4

KindOf(e) == IF IsParentCall(e) THEN "parent" ELSE IF IsBACall(e) THEN "ba" ELSE "pra"

\* the parsed row that came from CSV line L
RowOfLine(L) == rows[CHOOSE k \in DOMAIN rows : rowLine[k] = L]

\* issued names the create calls of the log, one for one, and a child call
\* carries the domain and the port found at the positions issued records
IssuedIsTheLog ==
    /\ Len(issued) = Len(CreateCalls)
    /\ \A n \in DOMAIN issued :
           /\ issued[n].line = CreateCalls[n].line
           /\ issued[n].kind = KindOf(CreateCalls[n])
           /\ issued[n].err = CreateCalls[n].err
           /\ issued[n].kind /= "parent" =>
                  /\ issued[n].d \in DOMAIN RowOfLine(issued[n].line).domain_names
                  /\ issued[n].p \in DOMAIN RowOfLine(issued[n].line).tcp_ports
                  /\ CreateCalls[n].args.domain =
                         RowOfLine(issued[n].line).domain_names[issued[n].d]
                  /\ CreateCalls[n].args.application_port =
                         RowOfLine(issued[n].line).tcp_ports[issued[n].p]

\* C21: no retry.  The parent create is invoked at most once per input row
\* and each child create at most once per (row, child kind, domain position,
\* tcp-port position); in particular a create call that returned an error
\* is never issued again.
C21_NoRetry ==
    /\ IssuedIsTheLog
    /\ \A a, b \in DOMAIN issued :
           a < b =>
               <<issued[a].line, issued[a].kind, issued[a].d, issued[a].p>>
                   /= <<issued[b].line, issued[b].kind, issued[b].d, issued[b].p>>

\* a run has ended in which a parent create and a child create returned an
\* error, and later create calls were made
C21_Witness ==
    /\ pc = "done"
    /\ \E a, b \in DOMAIN issued :
           /\ issued[a].kind = "parent" /\ issued[a].err
           /\ issued[b].kind /= "parent" /\ issued[b].err
           /\ \E c \in DOMAIN issued : c > a /\ c > b

\* how many times the listing op has been called ahead of the row loop
ListingCalls(op) ==
    Cardinality({n \in DOMAIN log : log[n].op = op /\ log[n].line = 0})

\* main() has gone past the listing made at the place at
Past(at) ==
    CASE at = "list_server_groups" -> pc /= "list_server_groups"
      [] at = "list_segment_groups" -> pc \notin {"list_server_groups", "list_segment_groups"}
      [] at = "list_segments" ->
             /\ prog = "import"
             /\ pc \notin {"list_server_groups", "list_segment_groups",
                           "check_groups", "list_segments", "exit"}

\* in a step taken once the three listings are behind, none of the three
\* snapshots changes
SnapshotsKept ==
    Past("list_segments") =>
        UNCHANGED <<server_groups, segment_groups, existing_segment_names>>

\* C22: read-only snapshots.  The server-group map, the segment-group map
\* and the existing-names set are built once before the row loop, each by
\* exactly one listing call, and no later step of the run (skip, validation
\* failure, parent create, child create, success or error) changes them.
C22_ReadOnlySnapshots ==
    /\ [](/\ ListingCalls("server_groups.list_groups")
                 = (IF Past("list_server_groups") THEN 1 ELSE 0)
          /\ ListingCalls("segment_groups.list_groups")
                 = (IF Past("list_segment_groups") THEN 1 ELSE 0)
          /\ prog = "import" =>
                 /\ ListingCalls("application_segment.list_segments") <= 1
                 /\ Past("list_segments") =>
                        ListingCalls("application_segment.list_segments") = 1)
    /\ [][/\ server_groups' /= server_groups => pc = "list_server_groups"
          /\ segment_groups' /= segment_groups => pc = "list_segment_groups"
          /\ existing_segment_names' /= existing_segment_names => pc = "list_segments"
          /\ SnapshotsKept]_vars

\* an import run has ended that skipped a row, had a create fail and
\* created a parent with a child, so that the tenant now holds a name the
\* snapshot lacks
C22_Witness ==
    /\ prog = "import"
    /\ pc = "done"
    /\ existing_segment_names /= {}
    /\ \E n \in DOMAIN tenant : tenant[n].name \notin existing_segment_names
    /\ \E n \in DOMAIN log : log[n].op = "print.skip_existing"
    /\ \E n \in DOMAIN issued : issued[n].err
    /\ configured_apps > 0

\* the create calls of the log that returned without error
ParentsReturnedOk ==
    Cardinality({n \in DOMAIN log : IsParentCall(log[n]) /\ ~log[n].err})

ChildrenReturnedOk ==
    Cardinality({n \in DOMAIN log : IsChildCall(log[n]) /\ ~log[n].err})

\* C23: counter accuracy.  At every point of the run segments_created is the
\* number of parent create calls that have returned without error and
\* child_apps_configured the number of child create calls (browser access
\* plus PRA) that have; neither counter ever decreases, and the values
\* returned at the end are these totals.
C23_CounterAccuracy ==
    /\ [](/\ created_count = ParentsReturnedOk
          /\ configured_apps = ChildrenReturnedOk
          /\ pc = "done" =>
                 /\ result.segments_created = ParentsReturnedOk
                 /\ prog = "import" =>
                        result.child_apps_configured = ChildrenReturnedOk)
    /\ [][created_count' >= created_count /\ configured_apps' >= configured_apps]_vars

\* an import run has returned its counts after parent and child creates of
\* which some failed and some did not, one of the children a PRA child
C23_Witness ==
    /\ prog = "import"
    /\ pc = "done"
    /\ result.segments_created > 0
    /\ result.child_apps_configured > 1
    /\ \E n \in DOMAIN log : IsPRACall(log[n]) /\ log[n].err
    /\ \E n \in DOMAIN log : IsPRACall(log[n]) /\ ~log[n].err
    /\ \E n \in DOMAIN log : IsBACall(log[n]) /\ log[n].err

\* parsed rows j and k, j the earlier, carry one name that the set fetched
\* before the loop lacks, and both validate
SameNewName(j, k) ==
    /\ j < k
    /\ rows[j].name = rows[k].name
    /\ ~NamedExisting(j)
    /\ GroupsResolve(rows[j])
    /\ GroupsResolve(rows[k])

\* C25: in name-keyed mode the existing-names snapshot is not updated by the
\* creations of the run: when two input rows carry the same name, the name
\* is absent from the pre-fetched set and both rows validate, a run without
\* force issues a parent create call for both rows; the second is not
\* skipped because of the first.
C25_DuplicateNames ==
    (prog = "import" /\ pc = "done" /\ ~force) =>
        \A j, k \in DOMAIN rows :
            SameNewName(j, k) =>
                /\ ParentCallFor(rowLine[j])
                /\ ParentCallFor(rowLine[k])
                /\ ~SkipPrintFor(rowLine[k])

\* an import run without force has ended in which the first of two rows of
\* one name was created, so that the tenant held the name when the second
\* row was taken, and the second was asked for all the same
C25_Witness ==
    /\ prog = "import"
    /\ pc = "done"
    /\ ~force
    /\ \E j, k \in DOMAIN rows :
           /\ SameNewName(j, k)
           /\ ParentSucceeded(rowLine[j])
           /\ ParentCallFor(rowLine[k])

\* the listing calls made for the row of CSV line L
ListingsFor(L) ==
    Cardinality({n \in DOMAIN log :
                    log[n].op = "application_segment.list_segments" /\ log[n].line = L})

\* the segment holds the domain and has exactly the row's TCP port range
Covers(segment, dm, r) ==
    /\ \E j \in DOMAIN segment.domain_names : segment.domain_names[j] = dm
    /\ segment.tcp_port_range = r.tcp_port_range

\* a segment covers a second or later domain of the row, none its first
CoveredLaterOnly(listed, r) ==
    /\ \E n \in DOMAIN listed : \E j \in 2..Len(r.domain_names) :
           Covers(listed[n], r.domain_names[j], r)
    /\ \A n \in DOMAIN listed : ~Covers(listed[n], r.domain_names[1], r)

\* a row equal to parsed row k, taken earlier in the run, was created and
\* the segment made for it is among those listed
EarlierTwinListed(listed, k) ==
    \E j \in 1..(k - 1) :
        /\ rows[j] = rows[k]
        /\ \E n \in DOMAIN log :
               /\ IsParentCall(log[n])
               /\ log[n].line = rowLine[j]
               /\ ~log[n].err
               /\ \E m \in DOMAIN listed : listed[m].id = log[n].ret

\* C26: in attribute-keyed mode (segment_maker without force) the segments
\* are listed anew for every row, and the check uses the row's first domain
\* only, with the row's whole TCP port range: the row is skipped iff some
\* segment listed at that moment holds the first domain and has an equal
\* TCP port range.  So a row of which only a second or later domain is
\* covered goes on to its create call, and a row equal to an earlier row
\* created in the same run is skipped when the listing shows that segment.
C26_ListedPerRow ==
    /\ []((prog = "maker" /\ ~force /\ pc \in {"loop", "segment_exists", "add_segment", "done"}) =>
              \A k \in DOMAIN rows :
                  ListingsFor(rowLine[k])
                      = (IF k < i \/ (k = i /\ pc = "add_segment") THEN 1 ELSE 0))
    /\ [][ (prog = "maker" /\ pc = "segment_exists") =>
               LET call == log'[Len(log) + 1]
                   listed == IF call.err THEN <<>> ELSE tenant
                   skipped ==
                       /\ pc' = "loop"
                       /\ i' = i + 1
                       /\ Len(log') = Len(log) + 2
                       /\ log'[Len(log) + 2].op = "print.skip_existing"
                       /\ log'[Len(log) + 2].line = line
                   passed ==
                       /\ pc' = "add_segment"
                       /\ i' = i
                       /\ Len(log') = Len(log) + 1
               IN  /\ call.op = "application_segment.list_segments"
                   /\ call.line = line
                   /\ skipped \/ passed
                   /\ skipped <=> \E n \in DOMAIN listed :
                                      Covers(listed[n], row.domain_names[1], row)
                   /\ CoveredLaterOnly(listed, row) => passed
                   /\ EarlierTwinListed(listed, i) => skipped
       ]_vars

\* a segment_maker run without force has ended that created a row of which
\* a segment of the tenant covered the second domain only, and then skipped
\* the equal row that followed
C26_Witness ==
    /\ prog = "maker"
    /\ ~force
    /\ pc = "done"
    /\ \E j, k \in DOMAIN rows :
           /\ j < k
           /\ rows[j] = rows[k]
           /\ CoveredLaterOnly(NearSegments, rows[j])
           /\ ParentSucceeded(rowLine[j])
           /\ SkipPrintFor(rowLine[k])
           /\ ~ParentCallFor(rowLine[k])

\* the TCP port tokens of the row that PRA takes, each occurrence counted
PRATokens(r) ==
    Cardinality({j \in DOMAIN r.tcp_ports :
                    r.tcp_ports[j] \in {<<"2", "2">>, <<"3", "3", "8", "9">>}})

ExpectedChildCount(r) ==
    (IF r.is_browser_access THEN Len(r.domain_names) * Len(r.tcp_ports) ELSE 0)
    + (IF r.is_pra THEN Len(r.domain_names) * PRATokens(r) ELSE 0)

CsvRead == prog = "url_update" /\ pc \in {"combine", "update", "activate", "done"}

\* the URL of data row n of the file, stripped; empty when the row has none
UrlOfRow(n) ==
    IF "URL" \in DOMAIN urls_file[n] /\ urls_file[n]["URL"] /= NoneVal
    THEN strip(urls_file[n]["URL"])
    ELSE <<>>

\* C24: url_update takes the Ticket ID from the first data row and the URLs
\* to add from all rows of the CSV file: the non-empty URL of every data
\* row, the first row that supplied the Ticket ID included, is in the set
\* of URLs to add.
C24_AllRowsExtracted ==
    CsvRead =>
        /\ (urls_file /= <<>> /\ "TicketID" \in DOMAIN urls_file[1]) =>
               ticket_id = strip(urls_file[1]["TicketID"])
        /\ \A n \in DOMAIN urls_file :
               UrlOfRow(n) /= <<>> => UrlOfRow(n) \in urls_to_add

\* the URLs the input file of the run holds: the stripped non-empty URL
\* cells of the data rows (url_update), the stripped non-blank lines
\* (add_custom_cats)
InputUrls ==
    IF prog = "url_update"
    THEN {UrlOfRow(n) : n \in {m \in DOMAIN urls_file : UrlOfRow(m) /= <<>>}}
    ELSE {strip(urls_file[n]) : n \in {m \in DOMAIN urls_file : strip(urls_file[m]) /= <<>>}}

\* the SDK calls of a gated update, in the order the scripts make them
GatedOrder ==
    <<"url_categories.get_category", "url_categories.update_url_category",
      "activate.activate">>

\* the calls made so far are the first calls of the order, each made after
\* the one before it returned without error
GatedSoFar ==
    /\ Len(log) <= Len(GatedOrder)
    /\ \A n \in DOMAIN log :
           /\ log[n].op = GatedOrder[n]
           /\ n > 1 => ~log[n - 1].err

\* C30: gated URL-category update (add_custom_cats.main, url_update.main).
\* The steps run in the order get category, update category, activate,
\* each only if the previous one returned without error; the update call is
\* issued only when the input contains at least one URL not already in the
\* category, the URL list it sends is exactly the union of the existing URLs
\* and the input URLs, never dropping an existing URL, and activate is never
\* called when the update was skipped or failed.
C30_GatedUpdate ==
    prog \in {"url_update", "add_custom_cats"} =>
        /\ GatedSoFar
        /\ Len(log) >= 2 =>
               LET existing == Range(log[1].ret.urls)
               IN  /\ InputUrls \ existing /= {}
                   /\ log[2].args.urls = existing \cup InputUrls
                   /\ existing \subseteq log[2].args.urls

\* the q-th smallest number of the set S
Nth(S, q) == CHOOSE k \in S : Cardinality({j \in S : j < k}) = q - 1

\* the policies, by position, whose url_categories hold the id
Referencing(id) ==
    {m \in DOMAIN filtering_policies :
        /\ "url_categories" \in DOMAIN filtering_policies[m]
        /\ \E j \in DOMAIN filtering_policies[m]["url_categories"] :
               filtering_policies[m]["url_categories"][j] = id}

\* the id begins with the seven characters CUSTOM_ and some policy holds it
IsUsed(id) ==
    /\ Len(id) >= 7
    /\ <<id[1], id[2], id[3], id[4], id[5], id[6], id[7]>>
           = <<"C", "U", "S", "T", "O", "M", "_">>
    /\ Referencing(id) /= {}

\* the input categories, by position, that are used / that are not
UsedAt == {k \in DOMAIN custom_categories : IsUsed(custom_categories[k].id)}

UnusedAt == DOMAIN custom_categories \ UsedAt

\* url_manager has made its analysis
Analyzed ==
    /\ prog = "url_manager"
    /\ pc \in {"ask_update", "bulk_get", "bulk_update", "bulk_activate", "done"}

\* C29: analyze_category_usage partitions the custom categories.  Every
\* input category appears in exactly one of used_categories and
\* unused_categories, the input order kept in each; a category is used iff
\* its id starts with "CUSTOM_" and occurs in the url_categories of at least
\* one policy; every used category has a non-empty linked_policies list
\* with one entry per policy that references it, in policy order.
C29_CategoryPartition ==
    Analyzed =>
        LET used == analysis.used_categories
            unused == analysis.unused_categories
        IN  /\ Len(used) = Cardinality(UsedAt)
            /\ Len(unused) = Cardinality(UnusedAt)
            /\ \A q \in DOMAIN unused :
                   /\ unused[q].id = custom_categories[Nth(UnusedAt, q)].id
                   /\ unused[q].name = custom_categories[Nth(UnusedAt, q)].name
            /\ \A q \in DOMAIN used :
                   LET refs == Referencing(used[q].id)
                       linked == used[q].linked_policies
                   IN  /\ used[q].id = custom_categories[Nth(UsedAt, q)].id
                       /\ used[q].name = custom_categories[Nth(UsedAt, q)].name
                       /\ linked /= <<>>
                       /\ Len(linked) = Cardinality(refs)
                       /\ \A t \in DOMAIN linked :
                              LET policy == filtering_policies[Nth(refs, t)]
                              IN  /\ linked[t].policy_name =
                                         (IF "name" \in DOMAIN policy THEN policy["name"]
                                          ELSE <<"U", "n", "n", "a", "m", "e", "d", " ", "P", "o", "l", "i", "c", "y">>)
                                  /\ linked[t].action =
                                         (IF "action" \in DOMAIN policy THEN policy["action"]
                                          ELSE <<"N", "o", " ", "A", "c", "t", "i", "o", "n", " ", "D", "e", "f", "i", "n", "e", "d">>)

\* the analysis was made of two custom categories, one used by two policies
\* and one by none
C29_Witness ==
    /\ Analyzed
    /\ Len(custom_categories) = 2
    /\ Len(analysis.used_categories) = 1
    /\ Len(analysis.unused_categories) = 1
    /\ Len(analysis.used_categories[1].linked_policies) = 2
    /\ analysis.used_categories[1].linked_policies[1]
           /= analysis.used_categories[1].linked_policies[2]

\* a port token the round trip is claimed for: non-empty, without a comma
\* and without surrounding whitespace
PlainToken(t) ==
    /\ t /= <<>>
    /\ \A j \in DOMAIN t : t[j] /= ","
    /\ t[1] \notin {" ", "\n"}
    /\ t[Len(t)] \notin {" ", "\n"}

SingleValue(r) == r.from = r.to /\ PlainToken(r.from)

TrueRange(r) == r.from /= r.to /\ PlainToken(r.from) /\ PlainToken(r.to)

\* C28: export/import port round trip.  For every list of single-value port
\* ranges (from = to, non-empty comma-free tokens without surrounding
\* whitespace) parse_ports(format_ports_to_string(ranges)) equals ranges;
\* a range with from /= to is exported as the token "from-to" and read back
\* as one single-value range whose from and to are both "from-to", so the
\* round trip does not restore it.
C28_PortRoundTrip ==
    (prog = "export" /\ pc = "done") =>
        /\ (\A n \in DOMAIN port_ranges : SingleValue(port_ranges[n])) =>
               reimported = port_ranges
        /\ (\A n \in DOMAIN port_ranges :
                SingleValue(port_ranges[n]) \/ TrueRange(port_ranges[n])) =>
               /\ Len(reimported) = Len(port_ranges)
               /\ \A n \in DOMAIN port_ranges :
                      TrueRange(port_ranges[n]) =>
                          /\ reimported[n].from
                                 = port_ranges[n].from \o <<"-">> \o port_ranges[n].to
                          /\ reimported[n].to = reimported[n].from
                          /\ reimported[n] /= port_ranges[n]

\* a list of two single values and a true range has been exported and read
\* back by segment_maker
C28_Witness ==
    /\ prog = "export"
    /\ pc = "done"
    /\ log[Len(log)].detail = "maker"
    /\ Len(port_ranges) = 3
    /\ \E n \in DOMAIN port_ranges : TrueRange(port_ranges[n])
    /\ \E a, b \in DOMAIN port_ranges :
           /\ a /= b
           /\ SingleValue(port_ranges[a])
           /\ SingleValue(port_ranges[b])
           /\ port_ranges[a] /= port_ranges[b]
           /\ reimported[a] = port_ranges[a]

=============================================================================
